---- MODULE Spec2Model ----
(***************************************************************************)
(* A model of docklib (homebysix/docklib): the Dock class of               *)
(* docklib/docklib.py with its LaunchAgentManager, and the save of the     *)
(* older single-file module docklib.py.                                    *)
(*                                                                         *)
(* Strings the code takes apart (preference keys, the error output of      *)
(* launchctl) are sequences of tokens, so that str.replace and the `in`    *)
(* test are computed rather than assumed.  Python's None and the values of *)
(* the preference store are tagged records.                                *)
(***************************************************************************)
EXTENDS Integers, Sequences, FiniteSets, TLC

VARIABLES
    store,        \* the com.apple.dock preference domain: key -> value
    items,        \* Dock.items: section key -> value
    attrs,        \* the Dock instance's attributes: attribute name -> value
    agentLoaded,  \* whether launchd has com.apple.Dock.agent loaded
    pc,           \* where Dock.save is
    idx,          \* position of save's current loop in its key list
    calls,        \* the external calls of the current save, in order
    err,          \* how the last save ended: NoError or the exception raised
    store0,       \* the store as it was when the current save was called
    prev,         \* how the save before the current one ended, if it just did
    attempt,      \* how many times save has been called
    ops,          \* how many mutations and external writes have happened
    litems,       \* the older module's Dock.items
    lpc,          \* where the older module's save is
    lcalls,       \* the external calls of the older module's current save
    lerr,         \* how the older module's last save ended
    last,         \* the last call of a Dock method on the sections, and its result
    items2        \* self.items of a second Dock instance, once one is constructed

lvars == <<litems, lpc, lcalls, lerr>>

\* What is known of the current save and the one before it.
saveVars == <<pc, idx, calls, err, store0, prev>>

vars == <<store, items, attrs, agentLoaded, saveVars, attempt, ops, lvars, last,
          items2>>

-----------------------------------------------------------------------------
(* Bounds of the model *)

NumMutableKeys == 2
MaxTiles == 2
MaxOps == 1
MaxSaves == 2

-----------------------------------------------------------------------------
(* Values *)

None == [t |-> "None"]
Val(v) == [t |-> "val", v |-> v]
List(s) == [t |-> "list", v |-> s]

\* `if value` in place of `if value is not None`.
IsFalsy(x) == x.t = "None" \/ (x.t = "val" /\ x.v = 0) \/ (x.t = "list" /\ x.v = <<>>)

IsNone(x) == x.t = "None"

\* Python truthiness: None, 0 (False) and the empty array are false.
Truthy(x) == (x.t = "val" /\ x.v # 0) \/ (x.t = "list" /\ Len(x.v) > 0)

-----------------------------------------------------------------------------
(* Strings as token sequences *)

\* str.replace(old, new) on a string held as words and separators.
Replace(s, old, new) == [i \in DOMAIN s |-> IF s[i] = old THEN new ELSE s[i]]

\* s.startswith(sub) in place of `sub in s`.
StartsWith(sub, s) ==
    /\ Len(sub) <= Len(s)
    /\ \A j \in 1..Len(sub) : s[j] = sub[j]

\* Python's `sub in s`.
Contains(sub, s) ==
    \E i \in 0..(Len(s) - Len(sub)) :
        \A j \in 1..Len(sub) : s[i + j] = sub[j]

-----------------------------------------------------------------------------
(* Class constants of Dock *)

_DOCK_LAUNCHAGENT_ID == "com.apple.Dock.agent"
_DOCK_LAUNCHAGENT_FILE == "/System/Library/LaunchAgents/com.apple.Dock.plist"

_SECTIONS == << <<"persistent", "-", "apps">>, <<"persistent", "-", "others">> >>

AllMutableKeys == <<
    <<"autohide">>,
    <<"autohide", "-", "immutable">>,
    <<"contents", "-", "immutable">>,
    <<"dblclickbehavior">>,
    <<"largesize">>,
    <<"launchanim">>,
    <<"launchanim", "-", "immutable">>,
    <<"magnification">>,
    <<"magnification", "-", "immutable">>,
    <<"magsize", "-", "immutable">>,
    <<"mineffect">>,
    <<"mineffect", "-", "immutable">>,
    <<"minimize", "-", "to", "-", "application">>,
    <<"minimize", "-", "to", "-", "application", "-", "immutable">>,
    <<"orientation">>,
    <<"orientation", "-", "immutable">>,
    <<"position", "-", "immutable">>,
    <<"tilesize">>,
    <<"show", "-", "process", "-", "indicators">>,
    <<"show", "-", "progress", "-", "indicators">>,
    <<"show", "-", "recents">>,
    <<"show", "-", "recents", "-", "immutable">>,
    <<"size", "-", "immutable">>,
    <<"windowtabbing">>,
    <<"AllowDockFixupOverride">> >>

\* The keys save writes with the read-only keys among them.
_MUTABLE_KEYS_AND_READ_ONLY ==
    SubSeq(AllMutableKeys, 1, NumMutableKeys)
    \o << <<"mod", "-", "count">>, <<"recent", "-", "apps">>, <<"trash", "-", "full">> >>

\* The model keeps the first NumMutableKeys keys of the list.
_MUTABLE_KEYS == SubSeq(AllMutableKeys, 1, NumMutableKeys)

_IMMUTABLE_KEYS == << <<"mod", "-", "count">>, <<"recent", "-", "apps">>,
                      <<"trash", "-", "full">> >>

Range(s) == {s[i] : i \in DOMAIN s}

SectionKeys == Range(_SECTIONS)
SettingKeys == Range(_MUTABLE_KEYS \o _IMMUTABLE_KEYS)
StoreKeys == SectionKeys \cup SettingKeys

\* key.replace("-", "_"): the attribute that holds a key's value.
AttrName(key) == Replace(key, "-", "_")

\* key.replace("_", "-"): the key save writes a setting under.
WriteKey(key) == Replace(key, "_", "-")

AttrNames == {AttrName(k) : k \in SettingKeys}

-----------------------------------------------------------------------------
(* Exceptions and results *)

NoError == [kind |-> "none", msg |-> ""]
LaunchAgentError(msg) == [kind |-> "LaunchAgentError", msg |-> msg]
\* DockError as a subclass of LaunchAgentError.
DockErrorAsAgentError == [kind |-> "LaunchAgentError", msg |-> ""]

\* `raise DockError` carries no message.
DockError == [kind |-> "DockError", msg |-> ""]
ValueError(msg) == [kind |-> "ValueError", msg |-> msg]

Return(v) == [exc |-> NoError, ret |-> v]
Raise(e) == [exc |-> e, ret |-> None]

-----------------------------------------------------------------------------
(* subprocess.run and launchctl *)

\* What subprocess.run(cmd, capture_output=True, text=True, check=False) gives:
\* a completed process, or a SubprocessError raised.
Completed(rc, stderr) == [raised |-> FALSE, returncode |-> rc, stderr |-> stderr]
SubprocessError == [raised |-> TRUE, returncode |-> -1, stderr |-> <<>>]

NoSuchProcess == <<"No", "such", "process">>
CouldNotFindService == <<"Could", "not", "find", "service">>

\* bootout taking every non-zero exit for "not loaded".
bootoutToleratesAll(run) ==
    IF run.raised
    THEN Raise(LaunchAgentError("Subprocess error during bootout"))
    ELSE Return(TRUE)

\* bootout without the "not loaded" case.
bootoutToleratesNone(run) ==
    IF run.raised
    THEN Raise(LaunchAgentError("Subprocess error during bootout"))
    ELSE IF run.returncode = 0
    THEN Return(TRUE)
    ELSE Raise(LaunchAgentError("Failed to bootout"))

\* bootout knowing "No such process" only as "not loaded".
bootoutToleratesNoSuchProcessOnly(run) ==
    IF run.raised
    THEN Raise(LaunchAgentError("Subprocess error during bootout"))
    ELSE IF run.returncode = 0
    THEN Return(TRUE)
    ELSE IF Contains(NoSuchProcess, run.stderr)
    THEN Return(TRUE)
    ELSE Raise(LaunchAgentError("Failed to bootout"))

\* LaunchAgentManager.bootout, given what subprocess.run did.
bootout(run) ==
    IF run.raised
    THEN Raise(LaunchAgentError("Subprocess error during bootout"))
    ELSE IF run.returncode = 0
    THEN Return(TRUE)
    ELSE IF Contains(NoSuchProcess, run.stderr)
            \/ Contains(CouldNotFindService, run.stderr)
    THEN Return(TRUE)
    ELSE Raise(LaunchAgentError("Failed to bootout"))

\* bootstrap with the exit code not tested.
bootstrapIgnoresExit(exists, run) ==
    IF ~exists
    THEN Raise(LaunchAgentError("LaunchAgent plist not found"))
    ELSE IF run.raised
    THEN Raise(LaunchAgentError("Subprocess error during bootstrap"))
    ELSE Return(TRUE)

\* bootstrap without the test that the definition file exists.
bootstrapWithoutFileTest(exists, run) ==
    IF run.raised
    THEN Raise(LaunchAgentError("Subprocess error during bootstrap"))
    ELSE IF run.returncode = 0
    THEN Return(TRUE)
    ELSE Raise(LaunchAgentError("Failed to bootstrap"))

\* LaunchAgentManager.bootstrap, given os.path.exists(plist_path) and, when the
\* command is run, what subprocess.run did.
bootstrap(exists, run) ==
    IF ~exists
    THEN Raise(LaunchAgentError("LaunchAgent plist not found"))
    ELSE IF run.raised
    THEN Raise(LaunchAgentError("Subprocess error during bootstrap"))
    ELSE IF run.returncode = 0
    THEN Return(TRUE)
    ELSE Raise(LaunchAgentError("Failed to bootstrap"))

\* `launchctl bootout gui/<uid>/<service>`: what the command can report and
\* whether the service is loaded afterwards.  It unloads a loaded service and
\* exits 0; for a service that is not loaded it exits non-zero and says so; it
\* can fail for another reason, or not run, and then changes nothing.
LaunchctlBootout(loaded) ==
    (IF loaded
     THEN {[run |-> Completed(0, <<>>), loaded |-> FALSE]}
     ELSE {[run |-> Completed(3, <<"Boot-out", "failed:", "3:", "No", "such", "process">>),
            loaded |-> FALSE],
           [run |-> Completed(113, <<"Could", "not", "find", "service",
                                     _DOCK_LAUNCHAGENT_ID, "in", "domain">>),
            loaded |-> FALSE]})
    \cup {[run |-> Completed(1, <<"Not", "privileged", "to", "stop", "service">>),
           loaded |-> loaded],
          [run |-> Completed(2, <<"No", "such", "file", "or", "directory">>),
           loaded |-> loaded],
          [run |-> SubprocessError, loaded |-> loaded]}

\* `launchctl bootstrap gui/<uid> <plist>`: loads the service and exits 0 when
\* it was not loaded; otherwise exits non-zero, or does not run, and changes
\* nothing.  exists is os.path.exists of the plist.
LaunchctlBootstrap(loaded) ==
    (IF loaded
     THEN {}
     ELSE {[exists |-> TRUE, run |-> Completed(0, <<>>), loaded |-> TRUE]})
    \cup {[exists |-> TRUE,
           run |-> Completed(5, <<"Bootstrap", "failed:", "5:", "Input/output", "error">>),
           loaded |-> loaded],
          [exists |-> TRUE, run |-> SubprocessError, loaded |-> loaded],
          [exists |-> FALSE, run |-> SubprocessError, loaded |-> loaded]}

-----------------------------------------------------------------------------
(* Tiles *)

EmptyDict == <<>>

SpacerTypes == {"spacer-tile", "small-spacer-tile"}

\* makeDockAppSpacer giving a spacer for a type it does not know.
makeDockAppSpacerCoerces(tile_type) ==
    IF tile_type \notin {"spacer-tile", "small-spacer-tile"}
    THEN Return(("tile-data" :> <<>>) @@ ("tile-type" :> "spacer-tile"))
    ELSE Return(("tile-data" :> <<>>) @@ ("tile-type" :> tile_type))

\* Dock.makeDockAppSpacer
makeDockAppSpacer(tile_type) ==
    IF tile_type \notin SpacerTypes
    THEN Raise(ValueError("invalid makeDockAppSpacer type"))
    ELSE Return(("tile-data" :> EmptyDict) @@ ("tile-type" :> tile_type))

-----------------------------------------------------------------------------
(* Paths and URLs *)

\* Paths, URLs, labels and queries are strings held as words and the
\* separators "/", ".", " ", "%20" and the scheme ("file://", "https://").

\* url.rstrip("/")
RStrip(s) ==
    LET kept == {i \in DOMAIN s : s[i] # "/"} IN
    IF kept = {} THEN <<>>
    ELSE SubSeq(s, 1, CHOOSE i \in kept : \A j \in kept : j <= i)

\* urlparse(url).path: what follows the scheme and the host; a string without
\* a scheme is all path.
UrlPath(url) ==
    IF url = <<>> \/ url[1] \notin {"file://", "https://"} THEN url
    ELSE LET slashes == {i \in DOMAIN url : url[i] = "/"} IN
         IF slashes = {} THEN <<>>
         ELSE SubSeq(url, CHOOSE i \in slashes : \A j \in slashes : i <= j, Len(url))

\* The path of the URL taken as it is written, nothing decoded.
NotUnquoted(s) == s

\* urllib.parse.unquote
unquote(s) == Replace(s, "%20", " ")

\* The percent-encoding NSURL applies to a path.
Quote(s) == Replace(s, " ", "%20")

\* os.path.basename
basename(path) ==
    LET slashes == {i \in DOMAIN path : path[i] = "/"} IN
    IF slashes = {} THEN path
    ELSE SubSeq(path, (CHOOSE i \in slashes : \A j \in slashes : j <= i) + 1, Len(path))

\* os.path.splitext(name)[0]: the name up to its last ".", unless that "." is
\* among the leading ones.
splitext(name) ==
    LET dots == {i \in DOMAIN name : name[i] = "."} IN
    IF dots = {} THEN name
    ELSE LET k == CHOOSE i \in dots : \A j \in dots : j <= i IN
         IF \E j \in 1..(k - 1) : name[j] # "." THEN SubSeq(name, 1, k - 1)
         ELSE name

\* The file system the builders look at: the directories among the paths
\* the model passes them (os.path.isdir, and the trailing "/" NSURL gives the
\* URL of a directory).
AppPath == <<"/", "Applications", "/", "Time", " ", "Machine", ".", "app">>
MailPath == <<"/", "Applications", "/", "Mail", ".", "app">>
DownloadsPath == <<"/", "Users", "/", "me", "/", "Downloads">>
NotesPath == <<"/", "Users", "/", "me", "/", "notes", ".", "txt">>

DownloadsSlashPath == DownloadsPath \o <<"/">>
DownloadsOldPath == <<"/", "Users", "/", "me", "/", "Downloads", ".", "old">>

Directories == {AppPath, MailPath, DownloadsPath, DownloadsSlashPath, DownloadsOldPath}

isdir(path) == path \in Directories

\* NSURL.fileURLWithPath_(thePath).absoluteString()
fileURLWithPath(thePath) ==
    <<"file://">> \o Quote(thePath)
        \o (IF isdir(thePath) /\ thePath[Len(thePath)] # "/" THEN <<"/">> ELSE <<>>)

\* NSURL.URLWithString_(theURL).absoluteString(), of a well-formed URL.
URLWithString(theURL) == theURL

-----------------------------------------------------------------------------
(* The tile builders *)

\* A string argument that may also be None.
Str(s) == [t |-> "str", v |-> s]

FileData(ns_url) == ("_CFURLString" :> ns_url) @@ ("_CFURLStringType" :> 15)

\* Dock.makeDockAppEntry
makeDockAppEntry(thePath, label_name) ==
    LET name == IF label_name = <<>> THEN splitext(basename(thePath))
                ELSE label_name
        ns_url == fileURLWithPath(thePath)
    IN  ("tile-data" :> (("file-data" :> FileData(ns_url))
                         @@ ("file-label" :> name)
                         @@ ("file-type" :> 41)))
        @@ ("tile-type" :> "file-tile")

\* Dock.makeDockOtherEntry
makeDockOtherEntry(thePath, arrangement, displayas, showas) ==
    LET label_name == splitext(basename(thePath))
        arr == IF arrangement = 0
               THEN (IF label_name = <<"Downloads">> THEN 2 ELSE 1)
               ELSE arrangement
        ns_url == fileURLWithPath(thePath)
    IN  IF isdir(thePath)
        THEN ("tile-data" :> (("arrangement" :> arr)
                              @@ ("displayas" :> displayas)
                              @@ ("file-data" :> FileData(ns_url))
                              @@ ("file-label" :> label_name)
                              @@ ("dock-extra" :> FALSE)
                              @@ ("showas" :> showas)))
             @@ ("tile-type" :> "directory-tile")
        ELSE ("tile-data" :> (("file-data" :> FileData(ns_url))
                              @@ ("file-label" :> label_name)
                              @@ ("dock-extra" :> FALSE)))
             @@ ("tile-type" :> "file-tile")

\* Dock.makeDockOtherURLEntry: label is None or a string.
makeDockOtherURLEntry(theURL, label) ==
    LET label_name == IF IsNone(label) THEN theURL ELSE label.v
        ns_url == URLWithString(theURL)
    IN  ("tile-data" :> (("label" :> label_name) @@ ("url" :> FileData(ns_url))))
        @@ ("tile-type" :> "url-tile")

-----------------------------------------------------------------------------
(* Dock.findExistingEntry and Dock.findExistingURL *)

\* dict.get(key, default)
Get(d, key, default) == IF key \in DOMAIN d THEN d[key] ELSE default

RECURSIVE ScanItems(_, _, _, _)
\* `for index, item in enumerate(section_items)` for the criterion m, from
\* the item at Python index i on: the index of the first match, or -1 when the
\* loop ends.
ScanItems(section_items, m, match_str, i) ==
    IF i >= Len(section_items) THEN -1
    ELSE LET item == section_items[i + 1]
             url == Get(Get(item["tile-data"], "file-data", EmptyDict),
                        "_CFURLString", <<>>)
             path == unquote(UrlPath(RStrip(url)))
             name_ext == basename(path)
             name_noext == splitext(name_ext)
         IN  IF m = "label"
             THEN IF \E label_key \in {"file-label", "label"} :
                        /\ label_key \in DOMAIN item["tile-data"]
                        /\ item["tile-data"][label_key] = match_str
                  THEN i
                  ELSE ScanItems(section_items, m, match_str, i + 1)
             ELSE IF m = "path" /\ path = match_str THEN i
             ELSE IF m = "name_ext" /\ name_ext = match_str THEN i
             ELSE IF m = "name_noext" /\ name_noext = match_str THEN i
             ELSE ScanItems(section_items, m, match_str, i + 1)

RECURSIVE ScanCriteria(_, _, _, _)
\* `for m in match_ons` from position k on: a full scan of the section for
\* each criterion, the first hit returned.
ScanCriteria(section_items, match_ons, match_str, k) ==
    IF k > Len(match_ons) THEN -1
    ELSE LET found == ScanItems(section_items, match_ons[k], match_str, 0) IN
         IF found # -1 THEN found
         ELSE ScanCriteria(section_items, match_ons, match_str, k + 1)

\* 'any' without the label criterion.
MatchOnsWithoutLabel(match_on) ==
    IF match_on = "any" THEN <<"path", "name_ext", "name_noext">>
    ELSE <<match_on>>

\* An unknown match_on taken as 'any'.
MatchOnsUnknownAsAny(match_on) ==
    IF match_on \notin {"label", "path", "name_ext", "name_noext"}
    THEN <<"label", "path", "name_ext", "name_noext">>
    ELSE <<match_on>>

MatchOns(match_on) ==
    IF match_on = "any" THEN <<"label", "path", "name_ext", "name_noext">>
    ELSE <<match_on>>

RECURSIVE ScanTiles(_, _, _, _)
\* The two loops the other way round: for each tile in turn, every criterion.
ScanTiles(section_items, match_ons, match_str, i) ==
    IF i >= Len(section_items) THEN -1
    ELSE IF \E k \in DOMAIN match_ons :
                ScanItems(<<section_items[i + 1]>>, match_ons[k], match_str, 0) = 0
    THEN i
    ELSE ScanTiles(section_items, match_ons, match_str, i + 1)

\* findExistingEntry returning the first tile that matches under any criterion.
findExistingEntryTileFirst(its, match_str, match_on, section) ==
    IF ~Truthy(its[section]) THEN -1
    ELSE ScanTiles(its[section].v, MatchOns(match_on), match_str, 0)

\* Dock.findExistingEntry on the sections its; the result is a Python index.
findExistingEntry(its, match_str, match_on, section) ==
    IF ~Truthy(its[section]) THEN -1
    ELSE ScanCriteria(its[section].v, MatchOns(match_on), match_str, 1)

RECURSIVE ScanURLs(_, _, _)
\* The loop of findExistingURL from the item at Python index i on.
ScanURLs(section_items, match_url, i) ==
    IF i >= Len(section_items) THEN -1
    ELSE LET data == section_items[i + 1]["tile-data"] IN
         IF /\ "url" \in DOMAIN data
            /\ data["url"] # EmptyDict
            /\ data["url"]["_CFURLString"] = match_url
         THEN i
         ELSE ScanURLs(section_items, match_url, i + 1)

\* findExistingURL taking no account of a trailing slash of the query.
findExistingURLLoose(its, match_url) ==
    IF ~Truthy(its[_SECTIONS[2]]) THEN -1
    ELSE ScanURLs(its[_SECTIONS[2]].v, RStrip(match_url), 0)

\* Dock.findExistingURL
findExistingURL(its, match_url) ==
    IF ~Truthy(its[_SECTIONS[2]]) THEN -1
    ELSE ScanURLs(its[_SECTIONS[2]].v, match_url, 0)

-----------------------------------------------------------------------------
(* Dock.removeDockEntry, Dock.removeDockURLEntry, Dock.replaceDockEntry *)

\* `del` taking every tile equal to the one at the index.
DeleteAllLike(section_items, index) ==
    SelectSeq(section_items, LAMBDA item : item # section_items[index + 1])

\* `del section_items[index]`, index a Python index.
DeleteAt(section_items, index) ==
    SubSeq(section_items, 1, index) \o SubSeq(section_items, index + 2, Len(section_items))

RECURSIVE RemoveInUntested(_, _, _, _, _)
\* RemoveIn without the test of found_index: `del section_items[-1]` takes
\* the last tile.
RemoveInUntested(its, sections, match_str, match_on, k) ==
    IF k > Len(sections) THEN its
    ELSE LET sect == sections[k]
             found_index == findExistingEntry(its, match_str, match_on, sect)
         IN  RemoveInUntested(
                IF found_index > -1
                THEN [its EXCEPT ![sect] = List(DeleteAt(@.v, found_index))]
                ELSE IF Truthy(its[sect])
                THEN [its EXCEPT ![sect] = List(SubSeq(@.v, 1, Len(@.v) - 1))]
                ELSE its,
                sections, match_str, match_on, k + 1)

RECURSIVE RemoveIn(_, _, _, _, _)
\* `for sect in sections` from position k on: the sections after the loop.
RemoveIn(its, sections, match_str, match_on, k) ==
    IF k > Len(sections) THEN its
    ELSE LET sect == sections[k]
             found_index == findExistingEntry(its, match_str, match_on, sect)
         IN  RemoveIn(IF found_index > -1
                      THEN [its EXCEPT ![sect] = List(DeleteAt(@.v, found_index))]
                      ELSE its,
                      sections, match_str, match_on, k + 1)

\* Dock.removeDockEntry; section is "" (the empty string) or a section's key.
removeDockEntry(its, match_str, match_on, section) ==
    RemoveIn(its, IF section # <<>> THEN <<section>> ELSE _SECTIONS,
             match_str, match_on, 1)

\* Dock.removeDockURLEntry
removeDockURLEntry(its, url) ==
    LET found_index == findExistingURL(its, url) IN
    IF found_index > -1
    THEN [its EXCEPT ![_SECTIONS[2]] = List(DeleteAt(@.v, found_index))]
    ELSE its

\* replaceDockEntry deriving its query from the base name with its extension.
ReplaceQueryKeepsExtension(newpath, match_str, match_on, label) ==
    LET given == IF label # <<>> THEN label ELSE match_str IN
    [match_str |-> IF given = <<>> THEN basename(newpath) ELSE given,
     match_on |-> IF label # <<>> THEN "label" ELSE match_on]

\* The query and criterion replaceDockEntry searches with: the deprecated
\* label when given, else match_str, else the new path's name without extension.
ReplaceQuery(newpath, match_str, match_on, label) ==
    LET given == IF label # <<>> THEN label ELSE match_str IN
    [match_str |-> IF given = <<>> THEN splitext(basename(newpath)) ELSE given,
     match_on |-> IF label # <<>> THEN "label" ELSE match_on]

\* The tile replaceDockEntry builds.
ReplaceItem(newpath, section) ==
    IF section = _SECTIONS[1] THEN makeDockAppEntry(newpath, <<>>)
    ELSE makeDockOtherEntry(newpath, 0, 1, 0)

\* replaceDockEntry inserting the new tile before the one found.
replaceDockEntryInserts(its, newpath, match_str, match_on, label, section) ==
    LET q == ReplaceQuery(newpath, match_str, match_on, label)
        found_index == findExistingEntry(its, q.match_str, q.match_on, section)
    IN  IF found_index > -1
        THEN [its EXCEPT ![section] =
                List(SubSeq(@.v, 1, found_index) \o <<ReplaceItem(newpath, section)>>
                     \o SubSeq(@.v, found_index + 1, Len(@.v)))]
        ELSE its

\* replaceDockEntry appending the new tile when nothing is found.
replaceDockEntryAppends(its, newpath, match_str, match_on, label, section) ==
    LET q == ReplaceQuery(newpath, match_str, match_on, label)
        found_index == findExistingEntry(its, q.match_str, q.match_on, section)
    IN  IF found_index > -1
        THEN [its EXCEPT ![section] =
                List([@.v EXCEPT ![found_index + 1] = ReplaceItem(newpath, section)])]
        ELSE IF its[section].t = "list"
        THEN [its EXCEPT ![section] = List(Append(@.v, ReplaceItem(newpath, section)))]
        ELSE its

\* replaceDockEntry taking the found tile out and putting the new one last.
replaceDockEntryMoves(its, newpath, match_str, match_on, label, section) ==
    LET q == ReplaceQuery(newpath, match_str, match_on, label)
        found_index == findExistingEntry(its, q.match_str, q.match_on, section)
    IN  IF found_index > -1
        THEN [its EXCEPT ![section] =
                List(Append(SubSeq(@.v, 1, found_index)
                                \o SubSeq(@.v, found_index + 2, Len(@.v)),
                            ReplaceItem(newpath, section)))]
        ELSE its

\* Dock.replaceDockEntry
replaceDockEntry(its, newpath, match_str, match_on, label, section) ==
    LET q == ReplaceQuery(newpath, match_str, match_on, label)
        found_index == findExistingEntry(its, q.match_str, q.match_on, section)
    IN  IF found_index > -1
        THEN [its EXCEPT ![section] =
                List([@.v EXCEPT ![found_index + 1] = ReplaceItem(newpath, section)])]
        ELSE its

-----------------------------------------------------------------------------
(* Dock.__init__ *)

\* CFPreferencesCopyAppValue(key, domain)
CopyAppValue(st, key) == IF key \in DOMAIN st THEN st[key] ELSE None

\* The key whose attribute is name.
KeyOfAttr(name) == CHOOSE k \in SettingKeys : AttrName(k) = name

LoadItems(st) ==
    [k \in SectionKeys |->
        IF Truthy(CopyAppValue(st, k)) THEN CopyAppValue(st, k) ELSE None]

LoadAttrs(st) == [n \in AttrNames |-> CopyAppValue(st, KeyOfAttr(n))]

\* Dock.__init__ of the older module: `section.mutableCopy()` with no test for
\* an absent section, which raises; the instance then does not exist and its
\* items are left None.
LegacyLoadItems(st) ==
    IF \A k \in SectionKeys : ~IsNone(CopyAppValue(st, k))
    THEN [k \in SectionKeys |-> CopyAppValue(st, k)]
    ELSE [k \in SectionKeys |-> None]

-----------------------------------------------------------------------------
(* The state after construction *)

Spacer(tile_type) == makeDockAppSpacer(tile_type).ret

\* The preference domains a Dock is constructed on: persistent-apps absent or
\* holding one tile, persistent-others holding one tile, the mutable settings
\* all absent or all set, the read-only keys set.
InitStores ==
    {s \in [StoreKeys -> {None, Val(1), List(<<Spacer("spacer-tile")>>)}] :
        /\ s[_SECTIONS[1]].t \in {"None", "list"}
        /\ s[_SECTIONS[2]].t = "list"
        /\ \A k \in Range(_MUTABLE_KEYS) : s[k].t \in {"None", "val"}
        /\ \A j, k \in Range(_MUTABLE_KEYS) : s[j] = s[k]
        /\ \A k \in Range(_IMMUTABLE_KEYS) : s[k].t = "val"}

\* An external call as save's log keeps it: the operation, the key written (a
\* preference write), whether it returned success, and what subprocess.run did
\* (a launchctl command that was run).
NoRun == [raised |-> FALSE, returncode |-> -1, stderr |-> <<>>]
Call(op, key, ok, run) == [op |-> op, key |-> key, ok |-> ok, run |-> run]

Quiescent == pc \in {"idle", "done"} /\ lpc \in {"idle", "done"}

\* The current save has stopped the agent, or found it stopped, and it is not
\* loaded now.
AgentLeftStopped == Len(calls) > 0 /\ calls[1].ok /\ ~agentLoaded

\* The current save has written to the store or left the agent stopped.
Affected ==
    \/ \E i \in DOMAIN calls : calls[i].op = "set" /\ calls[i].ok
    \/ AgentLeftStopped

NoPrev == [kind |-> "none", affected |-> FALSE]

\* A call of one of the Dock's methods on the sections as the model records
\* it: the method, its arguments, what it returned (an index, for the finders)
\* and the sections as they were when it was called.
EditCall(op, match_str, match_on, section, newpath, label, ret, its) ==
    [op |-> op, match_str |-> match_str, match_on |-> match_on,
     section |-> section, newpath |-> newpath, label |-> label,
     ret |-> ret, items0 |-> its]

NoCall == [op |-> "none"]

\* No second Dock instance has been constructed.
NoDock == [t |-> "NoDock"]

Init ==
    /\ store \in InitStores
    /\ items = LoadItems(store)
    /\ attrs = LoadAttrs(store)
    /\ agentLoaded \in BOOLEAN
    /\ pc = "idle"
    /\ idx = 1
    /\ calls = <<>>
    /\ err = NoError
    /\ store0 = store
    /\ prev = NoPrev
    /\ attempt = 0
    /\ ops = 0
    /\ litems = LegacyLoadItems(store)
    /\ lpc = "idle"
    /\ lcalls = <<>>
    /\ lerr = NoError
    /\ last = NoCall
    /\ items2 = NoDock

-----------------------------------------------------------------------------
(* Dock.save, one action per external call *)

\* save is called.
SaveCall ==
    /\ Quiescent
    /\ attempt < MaxSaves
    /\ pc' = "bootout"
    /\ idx' = 1
    /\ calls' = <<>>
    /\ err' = NoError
    /\ store0' = store
    /\ prev' = IF pc = "done" THEN [kind |-> err.kind, affected |-> Affected]
                ELSE NoPrev
    /\ attempt' = attempt + 1
    /\ UNCHANGED <<store, items, attrs, agentLoaded, ops, lvars, last, items2>>

\* agent.bootout(self._DOCK_LAUNCHAGENT_ID)
SaveBootout ==
    /\ pc = "bootout"
    /\ \E out \in LaunchctlBootout(agentLoaded) :
        LET r == bootout(out.run) IN
        /\ agentLoaded' = out.loaded
        /\ calls' = Append(calls, Call("bootout", <<>>, r.exc = NoError, out.run))
        /\ err' = r.exc
        /\ pc' = IF r.exc = NoError THEN "sections" ELSE "done"
    /\ idx' = 1
    /\ UNCHANGED <<store, items, attrs, store0, prev, attempt, ops, lvars, last,
                 items2>>

\* AfterKey with the loop over the settings left out.
AfterKeySkipsSettings(loop, keys, i) ==
    IF i < Len(keys) THEN [pc |-> loop, idx |-> i + 1]
    ELSE [pc |-> "synchronize", idx |-> 1]

\* Where save goes once the loop over keys has handled position i.
AfterKey(loop, keys, i) ==
    IF i < Len(keys) THEN [pc |-> loop, idx |-> i + 1]
    ELSE IF loop = "sections" /\ Len(_MUTABLE_KEYS) > 0
    THEN [pc |-> "settings", idx |-> 1]
    ELSE [pc |-> "synchronize", idx |-> 1]

\* CFPreferencesSetAppValue that leaves a key the store already holds.
SetAppValueIfAbsent(st, key, value) ==
    IF st[key] # None THEN st ELSE (key :> value) @@ st

\* CFPreferencesSetAppValue(key, value, domain) returning.
SetAppValue(st, key, value) == (key :> value) @@ st

\* One pass of `for key in self._SECTIONS`: the write succeeds or raises.
SaveSection ==
    /\ pc = "sections"
    /\ LET key == _SECTIONS[idx]
           nxt == AfterKey("sections", _SECTIONS, idx) IN
       \E ok \in BOOLEAN :
        /\ calls' = Append(calls, Call("set", key, ok, NoRun))
        /\ IF ok
           THEN /\ store' = SetAppValue(store, key, items[key])
                /\ pc' = nxt.pc
                /\ idx' = nxt.idx
                /\ err' = err
           ELSE /\ store' = store
                /\ pc' = "done"
                /\ idx' = idx
                /\ err' = DockError
    /\ UNCHANGED <<items, attrs, agentLoaded, store0, prev, attempt, ops, lvars, last,
                 items2>>

\* SaveSetting undoing the writes of the save when a write raises.
SaveSettingRollsBack ==
    /\ pc = "settings"
    /\ LET key == _MUTABLE_KEYS[idx]
           value == attrs[AttrName(key)]
           nxt == AfterKey("settings", _MUTABLE_KEYS, idx) IN
       IF IsNone(value)
       THEN /\ pc' = nxt.pc
            /\ idx' = nxt.idx
            /\ UNCHANGED <<store, calls, err, items2>>
       ELSE \E ok \in BOOLEAN :
            /\ calls' = Append(calls, Call("set", WriteKey(key), ok, NoRun))
            /\ IF ok
               THEN /\ store' = SetAppValue(store, WriteKey(key), value)
                    /\ pc' = nxt.pc
                    /\ idx' = nxt.idx
                    /\ err' = err
               ELSE /\ store' = store0
                    /\ pc' = "done"
                    /\ idx' = idx
                    /\ err' = DockError
    /\ UNCHANGED <<items, attrs, agentLoaded, store0, prev, attempt, ops, lvars, last,
                 items2>>

\* One pass of `for key in self._MUTABLE_KEYS`: a setting that is None is
\* passed over; the write of another succeeds or raises.
SaveSetting ==
    /\ pc = "settings"
    /\ LET key == _MUTABLE_KEYS[idx]
           value == attrs[AttrName(key)]
           nxt == AfterKey("settings", _MUTABLE_KEYS, idx) IN
       IF IsNone(value)
       THEN /\ pc' = nxt.pc
            /\ idx' = nxt.idx
            /\ UNCHANGED <<store, calls, err, items2>>
       ELSE \E ok \in BOOLEAN :
            /\ calls' = Append(calls, Call("set", WriteKey(key), ok, NoRun))
            /\ IF ok
               THEN /\ store' = SetAppValue(store, WriteKey(key), value)
                    /\ pc' = nxt.pc
                    /\ idx' = nxt.idx
                    /\ err' = err
               ELSE /\ store' = store
                    /\ pc' = "done"
                    /\ idx' = idx
                    /\ err' = DockError
    /\ UNCHANGED <<items, attrs, agentLoaded, store0, prev, attempt, ops, lvars, last,
                 items2>>

\* SaveSynchronize returning from save after a successful flush.
SaveSynchronizeReturns ==
    /\ pc = "synchronize"
    /\ \E ok \in BOOLEAN :
        /\ calls' = Append(calls, Call("synchronize", <<>>, ok, NoRun))
        /\ pc' = "done"
        /\ err' = IF ok THEN err ELSE DockError
    /\ UNCHANGED <<store, items, attrs, agentLoaded, idx, store0, prev,
                   attempt, ops, lvars, last, items2>>

\* SaveSynchronize with the returned value not tested.
SaveSynchronizeUnchecked ==
    /\ pc = "synchronize"
    /\ \E ok \in BOOLEAN :
        /\ calls' = Append(calls, Call("synchronize", <<>>, ok, NoRun))
        /\ pc' = "bootstrap"
        /\ err' = err
    /\ UNCHANGED <<store, items, attrs, agentLoaded, idx, store0, prev,
                   attempt, ops, lvars, last, items2>>

\* CFPreferencesAppSynchronize(self._DOMAIN) returns True or False.
SaveSynchronize ==
    /\ pc = "synchronize"
    /\ \E ok \in BOOLEAN :
        /\ calls' = Append(calls, Call("synchronize", <<>>, ok, NoRun))
        /\ pc' = IF ok THEN "bootstrap" ELSE "done"
        /\ err' = IF ok THEN err ELSE DockError
    /\ UNCHANGED <<store, items, attrs, agentLoaded, idx, store0, prev,
                   attempt, ops, lvars, last, items2>>

\* agent.bootstrap(self._DOCK_LAUNCHAGENT_FILE), after which save returns.
SaveBootstrap ==
    /\ pc = "bootstrap"
    /\ \E out \in LaunchctlBootstrap(agentLoaded) :
        LET r == bootstrap(out.exists, out.run) IN
        /\ agentLoaded' = IF out.exists THEN out.loaded ELSE agentLoaded
        /\ calls' = Append(calls, Call("bootstrap", <<>>, r.exc = NoError,
                                       IF out.exists THEN out.run ELSE NoRun))
        /\ err' = r.exc
    /\ pc' = "done"
    /\ UNCHANGED <<store, items, attrs, idx, store0, prev, attempt, ops, lvars, last,
                 items2>>

Save == SaveCall \/ SaveBootout \/ SaveSection \/ SaveSetting
            \/ SaveSynchronize \/ SaveBootstrap

-----------------------------------------------------------------------------
(* Dock.save of the older module docklib.py *)

\* subprocess.call of `launchctl unload <plist>`, `launchctl load <plist>` and
\* `launchctl start <service>`: whether the service is loaded afterwards.  The
\* older save ignores what the commands return.
LaunchctlLegacy(cmd, loaded) ==
    CASE cmd = "unload" -> {FALSE, loaded}
      [] cmd = "load" -> {TRUE, loaded}
      [] OTHER -> {loaded}

LegacySaveCall ==
    /\ Quiescent
    /\ attempt < MaxSaves
    /\ \A k \in SectionKeys : ~IsNone(litems[k])
    /\ lpc' = "unload"
    /\ lcalls' = <<>>
    /\ lerr' = NoError
    /\ idx' = 1
    /\ attempt' = attempt + 1
    /\ UNCHANGED <<store, items, attrs, agentLoaded, pc, calls, err, store0,
                   prev, ops, litems, last, items2>>

\* One of the three subprocess.call lines.
LegacySaveLaunchctl ==
    /\ lpc \in {"unload", "load", "start"}
    /\ agentLoaded' \in LaunchctlLegacy(lpc, agentLoaded)
    /\ lcalls' = Append(lcalls, Call(lpc, <<>>, TRUE, NoRun))
    /\ lpc' = CASE lpc = "unload" -> "sections"
                [] lpc = "load" -> "start"
                [] OTHER -> "done"
    /\ UNCHANGED <<store, items, attrs, pc, idx, calls, err, store0, prev,
                   attempt, ops, litems, lerr, last, items2>>

LegacySaveSection ==
    /\ lpc = "sections"
    /\ LET key == _SECTIONS[idx] IN
       \E ok \in BOOLEAN :
        /\ lcalls' = Append(lcalls, Call("set", key, ok, NoRun))
        /\ IF ok
           THEN /\ store' = SetAppValue(store, key, litems[key])
                /\ lpc' = IF idx < Len(_SECTIONS) THEN "sections" ELSE "synchronize"
                /\ idx' = IF idx < Len(_SECTIONS) THEN idx + 1 ELSE 1
                /\ lerr' = lerr
           ELSE /\ store' = store
                /\ lpc' = "done"
                /\ idx' = idx
                /\ lerr' = DockError
    /\ UNCHANGED <<items, attrs, agentLoaded, pc, calls, err, store0, prev,
                   attempt, ops, litems, last, items2>>

LegacySaveSynchronize ==
    /\ lpc = "synchronize"
    /\ \E ok \in BOOLEAN :
        /\ lcalls' = Append(lcalls, Call("synchronize", <<>>, ok, NoRun))
        /\ lpc' = IF ok THEN "load" ELSE "done"
        /\ lerr' = IF ok THEN lerr ELSE DockError
    /\ UNCHANGED <<store, items, attrs, agentLoaded, pc, idx, calls, err,
                   store0, prev, attempt, ops, litems, last, items2>>

LegacySave == LegacySaveCall \/ LegacySaveLaunchctl \/ LegacySaveSection
                  \/ LegacySaveSynchronize

-----------------------------------------------------------------------------
(* What the caller and other processes do between saves *)

\* Once the caller or another process does something else, what was known of
\* the last save is forgotten.
Forget(st) ==
    /\ pc' = "idle"
    /\ idx' = 1
    /\ calls' = <<>>
    /\ err' = NoError
    /\ store0' = st
    /\ prev' = NoPrev

\* The caller assigns an attribute of the Dock: `dock.autohide = False`.
SetAttr ==
    /\ Quiescent
    /\ ops < MaxOps
    /\ \E n \in AttrNames, v \in {None, Val(0)} :
        /\ attrs[n] # v
        /\ attrs' = [attrs EXCEPT ![n] = v]
    /\ ops' = ops + 1
    /\ Forget(store)
    /\ UNCHANGED <<store, items, agentLoaded, attempt, lvars, last, items2>>

\* The caller appends a spacer: `dock.items[section].append(dock.makeDockAppSpacer(t))`.
AppendSpacer ==
    /\ Quiescent
    /\ ops < MaxOps
    /\ \E k \in SectionKeys, t \in SpacerTypes :
        /\ items[k].t = "list"
        /\ Len(items[k].v) < MaxTiles
        /\ items' = [items EXCEPT ![k] = List(Append(items[k].v, Spacer(t)))]
    /\ ops' = ops + 1
    /\ Forget(store)
    /\ UNCHANGED <<store, attrs, agentLoaded, attempt, lvars, last, items2>>

\* Another process writes a key of the domain.
ExternalWrite ==
    /\ Quiescent
    /\ ops < MaxOps
    /\ \E k \in StoreKeys :
        LET v == IF k \in SectionKeys
                 THEN List(<<Spacer("small-spacer-tile")>>)
                 ELSE Val(2) IN
        /\ store[k] # v
        /\ store' = [store EXCEPT ![k] = v]
        /\ Forget([store EXCEPT ![k] = v])
    /\ ops' = ops + 1
    /\ UNCHANGED <<items, attrs, agentLoaded, attempt, lvars, last, items2>>

Next == Save \/ SetAttr \/ AppendSpacer \/ ExternalWrite

Spec == Init /\ [][Next]_vars

\* Both modules' saves, for what is said of the older one.
NextBoth == Save \/ LegacySave \/ AppendSpacer \/ ExternalWrite

SpecBoth == Init /\ [][NextBoth]_vars

-----------------------------------------------------------------------------
(* LaunchAgentManager called on its own, on any outcome of the command *)

RunCodes == {0, 1, 3, 113}

StderrTexts ==
    { <<>>,
      <<"No", "such", "process">>,
      <<"Boot-out", "failed:", "3:", "No", "such", "process">>,
      <<"Could", "not", "find", "service", _DOCK_LAUNCHAGENT_ID, "in", "domain">>,
      <<"Could", "not", "find", "domain">>,
      <<"No", "such", "file", "or", "directory">>,
      <<"process", "No", "such">>,
      <<"Not", "privileged", "to", "stop", "service">> }

Runs == {Completed(rc, e) : rc \in RunCodes, e \in StderrTexts} \cup {SubprocessError}

\* manager.bootout(service_name)
ManagerBootout ==
    /\ Quiescent
    /\ \E run \in Runs :
        LET r == bootout(run) IN
        /\ calls' = <<Call("bootout", <<>>, r.exc = NoError, run)>>
        /\ err' = r.exc
        /\ agentLoaded' = IF ~run.raised /\ run.returncode = 0 THEN FALSE
                          ELSE agentLoaded
    /\ UNCHANGED <<store, items, attrs, pc, idx, store0, prev, attempt, ops, lvars, last,
                 items2>>

\* manager.bootstrap(plist_path)
ManagerBootstrap ==
    /\ Quiescent
    /\ \E exists \in BOOLEAN, run \in Runs :
        LET r == bootstrap(exists, run) IN
        /\ calls' = <<Call("bootstrap", <<>>, r.exc = NoError,
                           IF exists THEN run ELSE NoRun)>>
        /\ err' = r.exc
        /\ agentLoaded' = IF exists /\ ~run.raised /\ run.returncode = 0 THEN TRUE
                          ELSE agentLoaded
    /\ UNCHANGED <<store, items, attrs, pc, idx, store0, prev, attempt, ops, lvars, last,
                 items2>>

NextAgent == ManagerBootout \/ ManagerBootstrap

SpecAgent == Init /\ [][NextAgent]_vars

-----------------------------------------------------------------------------
(* The Dock's sections searched and edited *)

BookmarkURL == <<"https://", "example.com", "/", "docs">>

\* What the caller searches for.
Queries ==
    { <<>>,
      <<"Time", " ", "Machine">>,
      <<"Time", " ", "Machine", ".", "app">>,
      AppPath }

Strategies == {"any", "label", "path", "name_ext", "name_noext"}

\* A match_on value that is none of the documented ones.
UnknownStrategy == "bundle_id"

URLQueries == {BookmarkURL, BookmarkURL \o <<"/">>}

\* The tiles the caller builds to append to each section.
BuiltTiles(section) ==
    IF section = _SECTIONS[1]
    THEN { makeDockAppEntry(AppPath, <<>>),
           makeDockAppEntry(AppPath, <<"Zeitmaschine">>),
           makeDockAppEntry(MailPath, AppPath),
           Spacer("spacer-tile") }
    ELSE { makeDockOtherEntry(AppPath, 0, 1, 0),
           makeDockOtherURLEntry(BookmarkURL, Str(<<"Time", " ", "Machine">>)),
           Spacer("spacer-tile") }

\* The preference domains the edited Dock is constructed on: one without
\* persistent-apps, one with a tile in each section.
EditStores ==
    { (_SECTIONS[1] :> sects[1]) @@ (_SECTIONS[2] :> sects[2])
        @@ [k \in Range(_MUTABLE_KEYS) |-> None]
        @@ [k \in Range(_IMMUTABLE_KEYS) |-> Val(1)] :
        sects \in { <<None, List(<<Spacer("spacer-tile")>>)>>,
                    <<List(<<makeDockAppEntry(AppPath, <<>>)>>),
                      List(<<makeDockOtherEntry(AppPath, 0, 1, 0)>>)>> } }

InitEdit ==
    /\ store \in EditStores
    /\ items = LoadItems(store)
    /\ attrs = LoadAttrs(store)
    /\ agentLoaded = TRUE
    /\ pc = "idle"
    /\ idx = 1
    /\ calls = <<>>
    /\ err = NoError
    /\ store0 = store
    /\ prev = NoPrev
    /\ attempt = 0
    /\ ops = 0
    /\ litems = LegacyLoadItems(store)
    /\ lpc = "idle"
    /\ lcalls = <<>>
    /\ lerr = NoError
    /\ last = NoCall
    /\ items2 = NoDock

\* dock.findExistingEntry(match_str, match_on, section)
Find ==
    /\ Quiescent
    /\ last = NoCall
    /\ \E match_str \in Queries, match_on \in Strategies \cup {UnknownStrategy},
          section \in SectionKeys :
        last' = EditCall("find", match_str, match_on, section, <<>>, <<>>,
                         findExistingEntry(items, match_str, match_on, section), items)
    /\ UNCHANGED <<store, items, attrs, agentLoaded, saveVars, attempt, ops, lvars,
                 items2>>

\* dock.findExistingURL(match_url)
FindURL ==
    /\ Quiescent
    /\ last = NoCall
    /\ \E match_url \in URLQueries :
        last' = EditCall("findURL", match_url, "url", _SECTIONS[2], <<>>, <<>>,
                         findExistingURL(items, match_url), items)
    /\ UNCHANGED <<store, items, attrs, agentLoaded, saveVars, attempt, ops, lvars,
                 items2>>

\* dock.removeDockEntry(match_str, match_on, section)
Remove ==
    /\ Quiescent
    /\ last = NoCall
    /\ \E match_str \in Queries, match_on \in {"any", "label", "path", UnknownStrategy},
          section \in SectionKeys \cup {<<>>} :
        /\ items' = removeDockEntry(items, match_str, match_on, section)
        /\ last' = EditCall("remove", match_str, match_on, section, <<>>, <<>>,
                            -1, items)
    /\ Forget(store)
    /\ UNCHANGED <<store, attrs, agentLoaded, attempt, ops, lvars, items2>>

\* dock.removeDockURLEntry(url)
RemoveURL ==
    /\ Quiescent
    /\ last = NoCall
    /\ \E url \in URLQueries :
        /\ items' = removeDockURLEntry(items, url)
        /\ last' = EditCall("removeURL", url, "url", _SECTIONS[2], <<>>, <<>>,
                            -1, items)
    /\ Forget(store)
    /\ UNCHANGED <<store, attrs, agentLoaded, attempt, ops, lvars, items2>>

\* dock.replaceDockEntry(newpath, match_str, match_on, label, section)
Replace_ ==
    /\ Quiescent
    /\ last = NoCall
    /\ \E newpath \in {AppPath},
          match_str \in {<<>>, AppPath, <<"Zeitmaschine">>},
          match_on \in {"any", "name_ext", UnknownStrategy},
          label \in {<<>>, <<"Time", " ", "Machine">>},
          section \in SectionKeys :
        /\ items' = replaceDockEntry(items, newpath, match_str, match_on, label, section)
        /\ last' = EditCall("replace", match_str, match_on, section, newpath, label,
                            -1, items)
    /\ Forget(store)
    /\ UNCHANGED <<store, attrs, agentLoaded, attempt, ops, lvars, items2>>

\* dock.items[section].append(tile), tile from one of the builders.
AppendBuilt ==
    /\ Quiescent
    /\ last = NoCall
    /\ \E section \in SectionKeys :
        /\ items[section].t = "list"
        /\ Len(items[section].v) < MaxTiles
        /\ \E tile \in BuiltTiles(section) :
            items' = [items EXCEPT ![section] = List(Append(@.v, tile))]
        /\ last' = EditCall("append", <<>>, "", section, <<>>, <<>>, -1, items)
    /\ Forget(store)
    /\ UNCHANGED <<store, attrs, agentLoaded, attempt, ops, lvars, items2>>

\* The caller goes on: the record of the call it made is dropped.  A call is
\* made only then, so that each call is recorded against the sections it met.
Continue ==
    /\ last # NoCall
    /\ last' = NoCall
    /\ UNCHANGED <<store, items, attrs, agentLoaded, saveVars, attempt, ops, lvars,
                 items2>>

NextEdit == Find \/ FindURL \/ Remove \/ RemoveURL \/ Replace_ \/ AppendBuilt
                \/ Continue

SpecEdit == InitEdit /\ [][NextEdit]_vars

-----------------------------------------------------------------------------
(* The builders called on their own *)

\* makeDockOtherURLEntry with None as the default of label.
DefaultLabelNone == None

\* The label makeDockOtherURLEntry takes when the caller passes none.
DefaultLabel == Str(<<>>)

\* The tile types the caller passes makeDockAppSpacer.
TileTypes == {"spacer-tile", "small-spacer-tile", "invalid", "file-tile", ""}

\* The paths the caller passes makeDockOtherEntry.
OtherPaths ==
    {AppPath, MailPath, DownloadsPath, DownloadsSlashPath, DownloadsOldPath, NotesPath}

\* dock.makeDockAppSpacer(tile_type): the tile returned or the error raised.
MakeSpacer ==
    /\ Quiescent
    /\ last = NoCall
    /\ \E tile_type \in TileTypes :
        last' = [op |-> "makeDockAppSpacer", tile_type |-> tile_type,
                 result |-> makeDockAppSpacer(tile_type), items0 |-> items,
                 attrs0 |-> attrs]
    /\ UNCHANGED <<store, items, attrs, agentLoaded, saveVars, attempt, ops, lvars,
                 items2>>

\* dock.makeDockOtherEntry(thePath, arrangement, displayas, showas)
MakeOther ==
    /\ Quiescent
    /\ last = NoCall
    /\ \E thePath \in OtherPaths, arrangement \in 0..5, displayas \in {0, 1},
          showas \in 0..3 :
        last' = [op |-> "makeDockOtherEntry", thePath |-> thePath,
                 arrangement |-> arrangement, displayas |-> displayas,
                 showas |-> showas,
                 ret |-> makeDockOtherEntry(thePath, arrangement, displayas, showas)]
    /\ UNCHANGED <<store, items, attrs, agentLoaded, saveVars, attempt, ops, lvars,
                 items2>>

\* dock.makeDockOtherURLEntry(theURL), or with a label that is None or a
\* string: a call without a label takes the default of the signature.
MakeURL ==
    /\ Quiescent
    /\ last = NoCall
    /\ \E theURL \in {BookmarkURL, BookmarkURL \o <<"/">>},
          given \in {"omitted", "None", "str"},
          text \in {<<>>, <<"Example">>, <<"Time", " ", "Machine">>} :
        LET label == CASE given = "omitted" -> DefaultLabel
                       [] given = "None" -> None
                       [] OTHER -> Str(text)
        IN  /\ given # "str" => text = <<>>
            /\ last' = [op |-> "makeDockOtherURLEntry", theURL |-> theURL,
                        given |-> given, label |-> label,
                        ret |-> makeDockOtherURLEntry(theURL, label)]
    /\ UNCHANGED <<store, items, attrs, agentLoaded, saveVars, attempt, ops, lvars,
                 items2>>

NextMake == MakeSpacer \/ MakeOther \/ MakeURL \/ Continue

SpecMake == InitEdit /\ [][NextMake]_vars

-----------------------------------------------------------------------------
(* A second Dock instance *)

\* `items: dict = {}` in the class body, with __init__ assigning
\* `self.items[key]` and never `self.items`: self.items of every instance is
\* the one dict of the class.  What an instance holds after another instance
\* has written its sections is therefore what the other wrote.
ClassItems(held, written) == written

\* `Dock()` called again: __init__ reads both sections from the domain into
\* self.items.
NewDock ==
    /\ Quiescent
    /\ last = NoCall
    /\ items2 = NoDock
    /\ items2' = LoadItems(store)
    /\ items' = ClassItems(items, LoadItems(store))
    /\ last' = [op |-> "Dock", items0 |-> items]
    /\ Forget(store)
    /\ UNCHANGED <<store, attrs, agentLoaded, attempt, ops, lvars>>

\* The first instance appends a tile before the second is constructed.
AppendFirst == items2 = NoDock /\ AppendBuilt

\* second.items[section].append(tile)
AppendSecond ==
    /\ Quiescent
    /\ last = NoCall
    /\ items2 # NoDock
    /\ \E section \in SectionKeys :
        /\ items2[section].t = "list"
        /\ Len(items2[section].v) < MaxTiles
        /\ \E tile \in BuiltTiles(section) :
            LET written == [items2 EXCEPT ![section] = List(Append(@.v, tile))] IN
            /\ items2' = written
            /\ items' = ClassItems(items, written)
        /\ last' = [op |-> "append2", section |-> section, items0 |-> items]
    /\ Forget(store)
    /\ UNCHANGED <<store, attrs, agentLoaded, attempt, ops, lvars>>

\* second.removeDockEntry(match_str)
RemoveSecond ==
    /\ Quiescent
    /\ last = NoCall
    /\ items2 # NoDock
    /\ \E match_str \in {<<"Time", " ", "Machine">>, <<"Zeitmaschine">>} :
        LET written == removeDockEntry(items2, match_str, "any", <<>>) IN
        /\ items2' = written
        /\ items' = ClassItems(items, written)
        /\ last' = [op |-> "remove2", match_str |-> match_str, items0 |-> items]
    /\ Forget(store)
    /\ UNCHANGED <<store, attrs, agentLoaded, attempt, ops, lvars>>

\* second.replaceDockEntry(newpath, match_str, section=section)
ReplaceSecond ==
    /\ Quiescent
    /\ last = NoCall
    /\ items2 # NoDock
    /\ \E match_str \in {<<"Time", " ", "Machine">>, <<"Zeitmaschine">>},
          section \in SectionKeys :
        LET written == replaceDockEntry(items2, MailPath, match_str, "any", <<>>,
                                        section) IN
        /\ items2' = written
        /\ items' = ClassItems(items, written)
        /\ last' = [op |-> "replace2", match_str |-> match_str,
                    section |-> section, items0 |-> items]
    /\ Forget(store)
    /\ UNCHANGED <<store, attrs, agentLoaded, attempt, ops, lvars>>

\* The first instance edits, then a second is constructed and edits.
NextTwo == AppendFirst \/ NewDock \/ AppendSecond \/ RemoveSecond \/ ReplaceSecond
               \/ Continue

SpecTwo == InitEdit /\ [][NextTwo]_vars

-----------------------------------------------------------------------------
(* Load, edit, save *)

\* A tile as the Dock keeps it in the domain, with the GUID it gave it.
Stored(tile, guid) == ("GUID" :> guid) @@ tile

\* The domain of a Dock in use: the same application twice among the tiles
\* of persistent-apps, a folder and a bookmark in persistent-others.
CycleApps ==
    SubSeq(<< Stored(makeDockAppEntry(AppPath, <<>>), 1),
              Stored(makeDockAppEntry(MailPath, <<>>), 2),
              Stored(makeDockAppEntry(AppPath, <<>>), 3),
              Stored(Spacer("spacer-tile"), 4),
              Stored(makeDockAppEntry(MailPath, <<>>), 5) >>, 1, MaxTiles + 1)

CycleOthers ==
    << Stored(makeDockOtherEntry(AppPath, 0, 1, 0), 11),
       Stored(makeDockOtherURLEntry(BookmarkURL, Str(<<"Docs">>)), 12),
       Stored(makeDockOtherEntry(DownloadsPath, 0, 1, 0), 13) >>

CycleStore ==
    (_SECTIONS[1] :> List(CycleApps)) @@ (_SECTIONS[2] :> List(CycleOthers))
        @@ [k \in Range(_MUTABLE_KEYS) |-> None]
        @@ [k \in Range(_IMMUTABLE_KEYS) |-> Val(1)]

InitCycle ==
    /\ store = CycleStore
    /\ items = LoadItems(store)
    /\ attrs = LoadAttrs(store)
    /\ agentLoaded = TRUE
    /\ pc = "idle"
    /\ idx = 1
    /\ calls = <<>>
    /\ err = NoError
    /\ store0 = store
    /\ prev = NoPrev
    /\ attempt = 0
    /\ ops = 0
    /\ litems = LegacyLoadItems(store)
    /\ lpc = "idle"
    /\ lcalls = <<>>
    /\ lerr = NoError
    /\ last = NoCall
    /\ items2 = NoDock

\* One cycle: the tiles are edited, then save is called, and called again
\* when it failed.
RemoveLoaded == attempt = 0 /\ Remove
RemoveURLLoaded == attempt = 0 /\ RemoveURL
ReplaceLoaded == attempt = 0 /\ Replace_

\* dock.save() called once the edits are made.
SaveEdited == last = NoCall /\ SaveCall

NextCycle == RemoveLoaded \/ RemoveURLLoaded \/ ReplaceLoaded \/ Continue
                \/ SaveEdited \/ SaveBootout \/ SaveSection \/ SaveSetting
                \/ SaveSynchronize \/ SaveBootstrap

SpecCycle == InitCycle /\ [][NextCycle]_vars

-----------------------------------------------------------------------------
(* Properties of Dock.save *)

IsPrefix(a, b) == Len(a) <= Len(b) /\ a = SubSeq(b, 1, Len(a))

\* The operation and key of each call of the current save.
Made == [i \in DOMAIN calls |-> [op |-> calls[i].op, key |-> calls[i].key]]

NonAbsent(key) == attrs[Replace(key, "-", "_")] # None

\* Bootout, persistent-apps, persistent-others, the settings that are not
\* None in the order of the key list, synchronize, bootstrap.
FullOrder ==
    << [op |-> "bootout", key |-> <<>>],
       [op |-> "set", key |-> <<"persistent", "-", "apps">>],
       [op |-> "set", key |-> <<"persistent", "-", "others">>] >>
    \o [i \in DOMAIN SelectSeq(_MUTABLE_KEYS, NonAbsent) |->
            [op |-> "set", key |-> SelectSeq(_MUTABLE_KEYS, NonAbsent)[i]]]
    \o << [op |-> "synchronize", key |-> <<>>],
          [op |-> "bootstrap", key |-> <<>>] >>

Returned == pc = "done" /\ err = NoError

\* What the stop command did, told from its exit code and error output alone.
StopSucceeded(run) == ~run.raised /\ run.returncode = 0
StopNotLoaded(run) ==
    /\ ~run.raised
    /\ run.returncode # 0
    /\ run.stderr \in
        { <<"No", "such", "process">>,
          <<"Boot-out", "failed:", "3:", "No", "such", "process">>,
          <<"Could", "not", "find", "service", "com.apple.Dock.agent", "in", "domain">> }
StopFailed(run) == ~StopSucceeded(run) /\ ~StopNotLoaded(run)

\* C1: the external calls of a save are always a beginning of the fixed order
\* bootout, write of persistent-apps, write of persistent-others, writes of the
\* settings that are not None, synchronize, bootstrap, and the whole of it once
\* save has returned; a write or synchronize comes only after a bootout that
\* returned success, and nothing comes after bootstrap.
C1_FixedCallOrder ==
    pc # "idle" =>
        /\ IsPrefix(Made, FullOrder)
        /\ Returned => Made = FullOrder
        /\ \A i \in DOMAIN calls :
            /\ calls[i].op \in {"set", "synchronize"} =>
                    i > 1 /\ calls[1].op = "bootout" /\ calls[1].ok
            /\ calls[i].op = "bootstrap" => i = Len(calls) /\ pc = "done"

C1_Witness ==
    /\ Returned
    /\ Len(calls) > 5
    /\ \E k \in Range(_MUTABLE_KEYS) : ~NonAbsent(k)

\* C2: when the stop command fails with anything but "not loaded", save ends
\* with a LaunchAgentError having made the bootout call only: no write, no
\* synchronize, no bootstrap, and the store is as it was when save was called.
C2_StopFailureAbortsBeforeWrites ==
    (pc # "idle" /\ Len(calls) > 0 /\ StopFailed(calls[1].run)) =>
        /\ pc = "done"
        /\ err.kind = "LaunchAgentError"
        /\ Len(calls) = 1
        /\ store = store0

C2_Witness ==
    /\ pc = "done"
    /\ Len(calls) = 1
    /\ calls[1].run.returncode = 1
    /\ \E k \in SectionKeys : items[k] # store[k]

\* C3: when synchronize returns failure, save ends there with a DockError and
\* has not called bootstrap.
C3_SyncFailureAbortsBeforeStart ==
    \A i \in DOMAIN calls :
        (calls[i].op = "synchronize" /\ ~calls[i].ok) =>
            /\ pc = "done"
            /\ err = DockError
            /\ i = Len(calls)
            /\ \A j \in DOMAIN calls : calls[j].op # "bootstrap"

C3_Witness ==
    /\ pc = "done"
    /\ Len(calls) > 0
    /\ calls[Len(calls)].op = "synchronize"
    /\ ~calls[Len(calls)].ok

StoreCallFailed ==
    \E i \in DOMAIN calls : calls[i].op \in {"set", "synchronize"} /\ ~calls[i].ok

\* C4: a save whose stop command reported "not loaded" goes on as after a
\* successful stop: it never ends at the bootout, it calls bootstrap at most
\* once, and unless a write or the synchronize itself fails it has, when it
\* ends, written both sections and every setting that is not None, synchronized
\* and called bootstrap exactly once.
C4_NotLoadedStopProceeds ==
    (pc # "idle" /\ Len(calls) > 0 /\ StopNotLoaded(calls[1].run)) =>
        /\ calls[1].ok
        /\ Len(calls) = 1 => pc = "sections"
        /\ Cardinality({i \in DOMAIN calls : calls[i].op = "bootstrap"}) <= 1
        /\ (pc = "done" /\ ~StoreCallFailed) =>
            /\ Made = FullOrder
            /\ \A i \in DOMAIN calls : calls[i].op # "bootstrap" => calls[i].ok
            /\ Cardinality({i \in DOMAIN calls : calls[i].op = "bootstrap"}) = 1
            /\ \A k \in SectionKeys : store[k] = items[k]
            /\ \A k \in Range(_MUTABLE_KEYS) :
                NonAbsent(k) => store[k] = attrs[Replace(k, "-", "_")]

C4_Witness ==
    /\ Returned
    /\ StopNotLoaded(calls[1].run)
    /\ \E k \in Range(_MUTABLE_KEYS) : NonAbsent(k)

LastCall == calls[Len(calls)]

LegacyReturned == lpc = "done" /\ lerr = NoError

\* C5 as stated: a save that returns has loaded the agent from its definition
\* file and after that signalled it to start.
C5_TwoStepRestart ==
    /\ Returned =>
        \E i, j \in DOMAIN calls :
            i < j /\ calls[i].op = "bootstrap" /\ calls[j].op = "start"
    /\ LegacyReturned =>
        \E i, j \in DOMAIN lcalls :
            i < j /\ lcalls[i].op = "load" /\ lcalls[j].op = "start"

\* C5, amended: a save of docklib/docklib.py that returns has ended with a
\* successful synchronize followed by one bootstrap of the definition file and
\* no start signal; a save of the older docklib.py that returns has ended with
\* synchronize, load, start.
C5_RestartSteps ==
    /\ Returned =>
        /\ Len(calls) >= 2
        /\ calls[Len(calls) - 1].op = "synchronize" /\ calls[Len(calls) - 1].ok
        /\ LastCall.op = "bootstrap" /\ LastCall.ok
        /\ \A i \in DOMAIN calls : calls[i].op # "start"
        /\ Cardinality({i \in DOMAIN calls : calls[i].op = "bootstrap"}) = 1
    /\ LegacyReturned =>
        /\ Len(lcalls) >= 3
        /\ lcalls[Len(lcalls) - 2].op = "synchronize" /\ lcalls[Len(lcalls) - 2].ok
        /\ lcalls[Len(lcalls) - 1].op = "load"
        /\ lcalls[Len(lcalls)].op = "start"

C5_Witness == Returned /\ LegacyReturned

\* The exceptions save raises once the agent has been stopped.
StoppedAgentFailures ==
    { [kind |-> "DockError", msg |-> ""],
      [kind |-> "LaunchAgentError", msg |-> "LaunchAgent plist not found"],
      [kind |-> "LaunchAgentError", msg |-> "Subprocess error during bootstrap"],
      [kind |-> "LaunchAgentError", msg |-> "Failed to bootstrap"] }

\* The exception says that the agent could not be started again.
NamesFailedRestart(e) ==
    /\ e.kind = "LaunchAgentError"
    /\ e.msg \in {"LaunchAgent plist not found",
                  "Subprocess error during bootstrap",
                  "Failed to bootstrap"}

\* C6 as stated: a save that returns normally leaves the agent loaded, and a
\* save that ends with the agent stopped and not restarted ends with an
\* exception that reports that the agent is left stopped.
C6_FailureReportsStoppedAgent ==
    pc = "done" =>
        /\ Returned => agentLoaded
        /\ AgentLeftStopped => (err # NoError /\ NamesFailedRestart(err))

\* C6, amended: a save that returns normally leaves the agent loaded; a save
\* that ends with the agent stopped and not restarted ends with an exception:
\* a LaunchAgentError naming the failed bootstrap when the restart failed, a
\* DockError without a message when a write or the synchronize failed; save
\* raises these only when it leaves the agent stopped.
C6_StoppedAgentRaises ==
    pc = "done" =>
        /\ Returned => agentLoaded
        /\ AgentLeftStopped =>
            /\ err \in StoppedAgentFailures
            /\ LastCall.op = "bootstrap" <=> NamesFailedRestart(err)
            /\ LastCall.op \in {"set", "synchronize"} <=>
                    err = [kind |-> "DockError", msg |-> ""]
        /\ err \in StoppedAgentFailures => AgentLeftStopped

C6_Witness ==
    /\ pc = "done"
    /\ AgentLeftStopped
    /\ err.kind = "DockError"
    /\ StopSucceeded(calls[1].run)

\* C7 as stated: the kind of the exception tells a save that wrote to the
\* store or left the agent stopped from one that failed before anything
\* changed, so two failures of the same kind agree on it.
C7_KindTellsWhatChanged ==
    (pc = "done" /\ err # NoError /\ prev.kind = err.kind) =>
        prev.affected = Affected

\* C7, amended: a failed save raises LaunchAgentError (from bootout or
\* bootstrap) or DockError (from a write or synchronize) and nothing else; a
\* DockError always comes with the agent stopped and not restarted; a
\* LaunchAgentError comes from the bootout with nothing changed, or from the
\* bootstrap with every write made and the agent left stopped.
C7_ErrorKinds ==
    (pc = "done" /\ err # NoError) =>
        /\ Len(calls) > 0 /\ ~LastCall.ok
        /\ err.kind \in {"LaunchAgentError", "DockError"}
        /\ err.kind = "DockError" <=> LastCall.op \in {"set", "synchronize"}
        /\ err.kind = "LaunchAgentError" <=> LastCall.op \in {"bootout", "bootstrap"}
        /\ err.kind = "DockError" => AgentLeftStopped
        /\ LastCall.op = "bootout" => ~Affected /\ store = store0
        /\ LastCall.op = "bootstrap" =>
            /\ AgentLeftStopped
            /\ \A k \in SectionKeys : store[k] = items[k]

C7_Witness ==
    /\ pc = "done"
    /\ err.kind = "LaunchAgentError"
    /\ Affected
    /\ prev.kind = "LaunchAgentError"
    /\ ~prev.affected

\* C8: save writes a setting exactly when its attribute is not None, under the
\* setting's key and with the attribute's value; the key of a setting that is
\* None is not written and keeps the store's value.
C8_SettingWrittenIffNotNone ==
    pc # "idle" =>
        /\ DOMAIN store = DOMAIN store0
        /\ \A k \in Range(_MUTABLE_KEYS) :
            LET value == attrs[Replace(k, "-", "_")]
                tried == \E i \in DOMAIN calls :
                            calls[i].op = "set" /\ calls[i].key = k
                wrote == \E i \in DOMAIN calls :
                            calls[i].op = "set" /\ calls[i].key = k /\ calls[i].ok
            IN  /\ value = None => ~tried
                /\ wrote => store[k] = value
                /\ ~wrote => store[k] = store0[k]
                /\ (value # None /\ pc \in {"synchronize", "bootstrap", "done"}
                        /\ ~StoreCallFailed /\ calls[1].ok) => wrote

C8_Witness ==
    /\ Returned
    /\ \E k \in Range(_MUTABLE_KEYS) :
        attrs[Replace(k, "-", "_")] = None /\ store[k] # None
    /\ \E k \in Range(_MUTABLE_KEYS) :
        /\ attrs[Replace(k, "-", "_")] # None
        /\ \E i \in DOMAIN calls :
            calls[i].op = "set" /\ calls[i].key = k /\ calls[i].ok

\* The value Dock holds in memory for a key.
InMemory(k) == IF k \in SectionKeys THEN items[k] ELSE attrs[Replace(k, "-", "_")]

\* C9: when a preference write raises, save ends there with a DockError: the
\* keys written before it hold their new values, every other key holds the
\* value it had, and neither synchronize nor bootstrap is called.
C9_WriteFailureLeavesPartialStore ==
    \A i \in DOMAIN calls :
        (calls[i].op = "set" /\ ~calls[i].ok) =>
            /\ pc = "done"
            /\ err.kind = "DockError"
            /\ i = Len(calls)
            /\ \A j \in DOMAIN calls : calls[j].op \notin {"synchronize", "bootstrap"}
            /\ \A k \in StoreKeys :
                store[k] = IF \E j \in 1..(i - 1) :
                                 calls[j].op = "set" /\ calls[j].key = k
                           THEN InMemory(k)
                           ELSE store0[k]

C9_Witness ==
    /\ pc = "done"
    /\ Len(calls) > 3
    /\ LastCall.op = "set" /\ ~LastCall.ok
    /\ store # store0

-----------------------------------------------------------------------------
(* Properties of LaunchAgentManager *)

\* C10: bootout returns True exactly when the command exits with 0 or its
\* error output says the service was not loaded, and raises LaunchAgentError
\* on every other outcome.
C10_BootoutSuccessCases ==
    \A i \in DOMAIN calls :
        calls[i].op = "bootout" =>
            /\ calls[i].ok <=>
                    (StopSucceeded(calls[i].run) \/ StopNotLoaded(calls[i].run))
            /\ ~calls[i].ok => (i = Len(calls) /\ err.kind = "LaunchAgentError")
            /\ calls[i].ok => (i = Len(calls) => err = NoError)

C10_Witness ==
    /\ Len(calls) = 1
    /\ calls[1].op = "bootout"
    /\ calls[1].ok
    /\ calls[1].run.returncode = 3
    /\ calls[1].run.stderr = <<"Boot-out", "failed:", "3:", "No", "such", "process">>

\* C11: bootstrap raises LaunchAgentError without running the load command
\* when the definition file does not exist, raises LaunchAgentError when the
\* command exits non-zero (or cannot be run), and returns True only when the
\* command was run and exited with 0.
C11_BootstrapOutcomes ==
    \A i \in DOMAIN calls :
        calls[i].op = "bootstrap" =>
            LET run == calls[i].run IN
            /\ run = NoRun =>
                /\ ~calls[i].ok
                /\ i = Len(calls) => err = LaunchAgentError("LaunchAgent plist not found")
            /\ (run # NoRun /\ ~run.raised /\ run.returncode # 0) =>
                /\ ~calls[i].ok
                /\ i = Len(calls) => err = LaunchAgentError("Failed to bootstrap")
            /\ calls[i].ok <=> (run # NoRun /\ ~run.raised /\ run.returncode = 0)
            /\ i = Len(calls) =>
                /\ calls[i].ok => err = NoError
                /\ ~calls[i].ok => err.kind = "LaunchAgentError"

C11_Witness ==
    /\ Len(calls) = 1
    /\ calls[1].op = "bootstrap"
    /\ calls[1].run = NoRun
    /\ err = LaunchAgentError("LaunchAgent plist not found")

-----------------------------------------------------------------------------
(* Properties of the finders *)

\* The tiles of a section, none when the section is absent.
TilesOf(its, section) == IF its[section].t = "list" THEN its[section].v ELSE <<>>

\* The tile's file URL, "" when it has none.
FileURLOf(tile) ==
    IF "file-data" \in DOMAIN tile["tile-data"]
    THEN tile["tile-data"]["file-data"]["_CFURLString"]
    ELSE <<>>

RECURSIVE NoTrailingSlash(_)
NoTrailingSlash(s) ==
    IF s # <<>> /\ s[Len(s)] = "/" THEN NoTrailingSlash(SubSeq(s, 1, Len(s) - 1))
    ELSE s

\* The tile's URL decoded to a path, a trailing slash ignored: "" for a tile
\* without a file URL.
PathOf(tile) ==
    LET url == FileURLOf(tile)
        bare == IF url # <<>> /\ url[1] = "file://" THEN Tail(url) ELSE url
        trimmed == NoTrailingSlash(bare)
    IN  [i \in DOMAIN trimmed |-> IF trimmed[i] = "%20" THEN " " ELSE trimmed[i]]

\* The last component of a path.
NameOf(path) ==
    IF \A i \in DOMAIN path : path[i] # "/" THEN path
    ELSE LET k == CHOOSE k \in DOMAIN path :
                    path[k] = "/" /\ \A j \in (k + 1)..Len(path) : path[j] # "/"
         IN  SubSeq(path, k + 1, Len(path))

\* A name without its extension.
StemOf(name) ==
    IF \E k \in 2..Len(name) : name[k] = "." /\ name[k - 1] # "."
    THEN LET k == CHOOSE k \in 2..Len(name) :
                    name[k] = "." /\ \A j \in (k + 1)..Len(name) : name[j] # "."
         IN  SubSeq(name, 1, k - 1)
    ELSE name

\* Whether the tile matches the query q under the single strategy m.
MatchesOn(tile, m, q) ==
    CASE m = "label" ->
            \E key \in {"file-label", "label"} \cap DOMAIN tile["tile-data"] :
                tile["tile-data"][key] = q
      [] m = "path" -> PathOf(tile) = q
      [] m = "name_ext" -> NameOf(PathOf(tile)) = q
      [] m = "name_noext" -> StemOf(NameOf(PathOf(tile))) = q
      [] OTHER -> FALSE

\* The Python indexes of the tiles that match q under m.
Hits(tiles, m, q) == {i \in 0..(Len(tiles) - 1) : MatchesOn(tiles[i + 1], m, q)}

Lowest(S) == CHOOSE i \in S : \A j \in S : i <= j

AnyOrder == <<"label", "path", "name_ext", "name_noext">>

\* C12: with strategy 'any' the result is the lowest index matching under the
\* first of label, path, name_ext, name_noext under which any tile of the
\* section matches, whatever lower index matches under a later strategy, and
\* -1 when no tile matches under any; so with a tile matching on label only
\* and a tile matching on path only, the result is the index of a label match,
\* at most that of the first and never that of the second.
C12_AnyTriesStrategiesInOrder ==
    (last.op = "find" /\ last.match_on = "any") =>
        LET tiles == TilesOf(items, last.section)
            q == last.match_str
            used == {k \in 1..4 : Hits(tiles, AnyOrder[k], q) # {}}
        IN  /\ used = {} => last.ret = -1
            /\ used # {} => last.ret = Lowest(Hits(tiles, AnyOrder[Lowest(used)], q))
            /\ \A a, b \in 0..(Len(tiles) - 1) :
                (/\ MatchesOn(tiles[b + 1], "label", q)
                 /\ \A m \in {"path", "name_ext", "name_noext"} :
                        ~MatchesOn(tiles[b + 1], m, q)
                 /\ MatchesOn(tiles[a + 1], "path", q)
                 /\ ~MatchesOn(tiles[a + 1], "label", q))
                => /\ last.ret # a
                   /\ last.ret <= b
                   /\ MatchesOn(tiles[last.ret + 1], "label", q)
                   /\ Hits(tiles, "label", q) = {b} => last.ret = b

\* A tile matching on path only stands before the tile matching on label
\* only, and the later one is found.
C12_Witness ==
    /\ last.op = "find" /\ last.match_on = "any"
    /\ last.ret = 1
    /\ LET tiles == TilesOf(items, last.section) IN
        /\ Len(tiles) = 2
        /\ MatchesOn(tiles[1], "path", last.match_str)
        /\ ~MatchesOn(tiles[1], "label", last.match_str)
        /\ MatchesOn(tiles[2], "label", last.match_str)
        /\ ~MatchesOn(tiles[2], "path", last.match_str)

\* C13: under each single strategy (label, path, name_ext, name_noext)
\* findExistingEntry returns the lowest index of a tile matching the query
\* under that strategy, and -1 exactly when no tile of the section matches;
\* the result of any search is -1 or a valid index of the section.
C13_SingleStrategyLowestIndex ==
    last.op = "find" =>
        LET tiles == TilesOf(items, last.section)
            hits == Hits(tiles, last.match_on, last.match_str)
        IN  /\ last.ret \in -1..(Len(tiles) - 1)
            /\ last.match_on \in {"label", "path", "name_ext", "name_noext"} =>
                /\ last.ret = -1 <=> hits = {}
                /\ hits # {} => last.ret = Lowest(hits)

\* A search by path finds the second of two tiles, whose URL has an encoded
\* space and a trailing slash.
C13_Witness ==
    /\ last.op = "find" /\ last.match_on = "path"
    /\ last.ret = 1
    /\ last.match_str = AppPath
    /\ FileURLOf(TilesOf(items, last.section)[2]) # <<"file://">> \o AppPath
    /\ Len(TilesOf(items, last.section)) = 2

\* C14 as stated: for every query, a search by path, name_ext or name_noext
\* never returns the index of a tile that has no file URL (a spacer, a url
\* tile): those tiles are skipped.
C14_TilesWithoutURLSkipped ==
    (/\ last.op = "find"
     /\ last.match_on \in {"path", "name_ext", "name_noext"}
     /\ last.ret >= 0)
    => "file-data" \in DOMAIN TilesOf(items, last.section)[last.ret + 1]["tile-data"]

\* The Python indexes of the tiles that have a url whose URL string is q.
URLHits(tiles, q) ==
    {i \in 0..(Len(tiles) - 1) :
        /\ "url" \in DOMAIN tiles[i + 1]["tile-data"]
        /\ tiles[i + 1]["tile-data"]["url"]["_CFURLString"] = q}

\* C15: findExistingURL returns the lowest index of a tile of persistent-others
\* that has a url whose URL string equals the query exactly, and -1 when there
\* is none; tiles without a url are passed over, and persistent-apps plays no
\* part in the result.
C15_FindURLExactInOthers ==
    last.op = "findURL" =>
        LET hits == URLHits(TilesOf(items, <<"persistent", "-", "others">>),
                            last.match_str)
        IN  /\ hits = {} => last.ret = -1
            /\ hits # {} => last.ret = Lowest(hits)

\* The url tile is found behind a tile that has no url.
C15_Witness ==
    /\ last.op = "findURL"
    /\ last.ret = 1
    /\ "url" \notin DOMAIN TilesOf(items, <<"persistent", "-", "others">>)[1]["tile-data"]

-----------------------------------------------------------------------------
(* Properties of removeDockEntry and replaceDockEntry *)

Apps == <<"persistent", "-", "apps">>
Others == <<"persistent", "-", "others">>

\* The sequence without its element at the Python index i.
Without(tiles, i) ==
    [j \in 1..(Len(tiles) - 1) |-> IF j <= i THEN tiles[j] ELSE tiles[j + 1]]

\* C16: one call of removeDockEntry removes at most one tile from each section:
\* in each section it covers (both when no section is given, else the one
\* given) it deletes exactly the tile at the index findExistingEntry returns
\* for that section, leaving further matching tiles in place; a section it
\* does not cover is not touched.
C16_RemovesAtMostOnePerSection ==
    last.op = "remove" =>
        \A s \in {Apps, Others} :
            LET before == TilesOf(last.items0, s)
                found == findExistingEntry(last.items0, last.match_str,
                                           last.match_on, s)
                covered == last.section \in {<<>>, s}
            IN  /\ Len(before) - Len(TilesOf(items, s)) \in {0, 1}
                /\ (covered /\ found >= 0) => TilesOf(items, s) = Without(before, found)
                /\ ~(covered /\ found >= 0) => items[s] = last.items0[s]

\* A call without a section has taken one tile from each section and left a
\* second matching tile of persistent-apps in place.
C16_Witness ==
    /\ last.op = "remove" /\ last.section = <<>>
    /\ Len(TilesOf(items, Apps)) = Len(TilesOf(last.items0, Apps)) - 1
    /\ Len(TilesOf(items, Others)) = Len(TilesOf(last.items0, Others)) - 1
    /\ findExistingEntry(items, last.match_str, last.match_on, Apps) >= 0

\* Whether some tile of the section matches q under the strategy (under one
\* of the four, for 'any').
MatchesIn(its, s, match_on, q) ==
    \E m \in (IF match_on = "any" THEN {"label", "path", "name_ext", "name_noext"}
              ELSE {match_on}) :
        Hits(TilesOf(its, s), m, q) # {}

\* C17: removeDockEntry leaves every section in which the query matches no
\* tile exactly as it was; when the query matches in no section the call ends
\* without error with both sections as they were and the settings as loaded.
C17_RemoveWithoutMatchChangesNothing ==
    last.op = "remove" =>
        /\ \A s \in {Apps, Others} :
            ~MatchesIn(last.items0, s, last.match_on, last.match_str)
                => items[s] = last.items0[s]
        /\ (\A s \in {Apps, Others} :
                ~MatchesIn(last.items0, s, last.match_on, last.match_str))
            => /\ items = last.items0
               /\ attrs = LoadAttrs(store)
               /\ err = NoError

\* Nothing matches in two sections that both hold tiles.
C17_Witness ==
    /\ last.op = "remove" /\ last.section = <<>>
    /\ \A s \in {Apps, Others} :
        /\ Len(TilesOf(last.items0, s)) > 0
        /\ ~MatchesIn(last.items0, s, last.match_on, last.match_str)
    /\ items = last.items0

\* Whether the tile has the label q.
Labelled(tile, q) ==
    \E key \in {"file-label", "label"} \cap DOMAIN tile["tile-data"] :
        tile["tile-data"][key] = q

\* A builder's tile labelled q stands at the end of the section: it has been
\* appended to the tiles before it.
AppendedLast(its, s, q) ==
    /\ Len(TilesOf(its, s)) > 0
    /\ Labelled(TilesOf(its, s)[Len(TilesOf(its, s))], q)

\* Some tile before the last one of the section matches q under one of the
\* four strategies.
EarlierMatch(its, s, q) ==
    \E i \in 1..(Len(TilesOf(its, s)) - 1), m \in {"label", "path", "name_ext", "name_noext"} :
        MatchesOn(TilesOf(its, s)[i], m, q)

\* C18 as stated: once a builder's tile has been appended to a section, a
\* search with 'any' for its label finds an index >= 0, and after
\* removeDockEntry with that query the same search returns -1.
C18_RoundTrip ==
    /\ (/\ last.op = "find" /\ last.match_on = "any"
        /\ AppendedLast(items, last.section, last.match_str))
       => last.ret >= 0
    /\ \A s \in {Apps, Others} :
        (/\ last.op = "remove" /\ last.match_on = "any"
         /\ last.section \in {<<>>, s}
         /\ AppendedLast(last.items0, s, last.match_str))
        => findExistingEntry(items, last.match_str, "any", s) = -1

\* C18, amended: the search for the appended tile's label finds an index >= 0;
\* removeDockEntry with that query then takes one matching tile from the
\* section, the first, and the same search returns -1 exactly when no tile
\* that was in the section before the appended one matches the query;
\* otherwise it returns the index of a matching tile that is left.
C18_RoundTripOfOnlyMatch ==
    /\ (/\ last.op = "find" /\ last.match_on = "any"
        /\ AppendedLast(items, last.section, last.match_str))
       => last.ret >= 0
    /\ \A s \in {Apps, Others} :
        (/\ last.op = "remove" /\ last.match_on = "any"
         /\ last.section \in {<<>>, s}
         /\ AppendedLast(last.items0, s, last.match_str))
        => LET found == findExistingEntry(items, last.match_str, "any", s) IN
           /\ Len(TilesOf(items, s)) = Len(TilesOf(last.items0, s)) - 1
           /\ found = -1 <=> ~EarlierMatch(last.items0, s, last.match_str)
           /\ found >= 0 =>
                \E m \in {"label", "path", "name_ext", "name_noext"} :
                    MatchesOn(TilesOf(items, s)[found + 1], m, last.match_str)

\* The appended tile was the only match among two tiles and is gone.
C18_Witness ==
    /\ last.op = "remove" /\ last.match_on = "any"
    /\ Len(TilesOf(last.items0, Apps)) = 2
    /\ AppendedLast(last.items0, Apps, last.match_str)
    /\ ~EarlierMatch(last.items0, Apps, last.match_str)
    /\ last.section = <<>>
    /\ Len(TilesOf(items, Apps)) = 1
    /\ findExistingEntry(items, last.match_str, "any", Apps) = -1

\* The query and strategy the recorded replaceDockEntry call searched with.
Searched == ReplaceQuery(last.newpath, last.match_str, last.match_on, last.label)

\* C19: replaceDockEntry with a query that matches no tile of the target
\* section changes nothing: the target section has the same tiles in the same
\* order, the other section is as it was, and no tile is inserted.
C19_ReplaceWithoutMatchChangesNothing ==
    (/\ last.op = "replace"
     /\ ~MatchesIn(last.items0, last.section, Searched.match_on, Searched.match_str))
    => /\ items = last.items0
       /\ \A s \in {Apps, Others} : Len(TilesOf(items, s)) = Len(TilesOf(last.items0, s))

\* The given query matches nothing in a section that holds tiles.
C19_Witness ==
    /\ last.op = "replace"
    /\ last.match_str # <<>> /\ last.label = <<>>
    /\ Len(TilesOf(last.items0, last.section)) > 0
    /\ ~MatchesIn(last.items0, last.section, last.match_on, last.match_str)
    /\ items = last.items0

\* C20: when the query matches, replaceDockEntry puts the newly built tile
\* (makeDockAppEntry's for persistent-apps, makeDockOtherEntry's otherwise) at
\* the index findExistingEntry returns: the section keeps its length, every
\* other position keeps its tile, and the other section is as it was.
C20_ReplaceOverwritesInPlace ==
    (/\ last.op = "replace"
     /\ MatchesIn(last.items0, last.section, Searched.match_on, Searched.match_str))
    => LET before == TilesOf(last.items0, last.section)
           after == TilesOf(items, last.section)
           found == findExistingEntry(last.items0, Searched.match_str,
                                      Searched.match_on, last.section)
       IN  /\ found \in 0..(Len(before) - 1)
           /\ Len(after) = Len(before)
           /\ after[found + 1] = IF last.section = Apps
                                 THEN makeDockAppEntry(last.newpath, <<>>)
                                 ELSE makeDockOtherEntry(last.newpath, 0, 1, 0)
           /\ \A i \in 1..Len(before) : i # found + 1 => after[i] = before[i]
           /\ \A s \in {Apps, Others} \ {last.section} : items[s] = last.items0[s]

\* The second of two tiles of persistent-others has been replaced by a tile
\* that differs from it.
C20_Witness ==
    /\ last.op = "replace" /\ last.section = Others
    /\ Len(TilesOf(items, Others)) = 2
    /\ TilesOf(items, Others)[1] = TilesOf(last.items0, Others)[1]
    /\ TilesOf(items, Others)[2] # TilesOf(last.items0, Others)[2]
    /\ TilesOf(items, Others)[2] = makeDockOtherEntry(last.newpath, 0, 1, 0)

\* The tile replaceDockEntry puts in the section.
Built(newpath, s) ==
    IF s = Apps THEN makeDockAppEntry(newpath, <<>>)
    ELSE makeDockOtherEntry(newpath, 0, 1, 0)

\* C21: replaceDockEntry called without a query (no match_str, no label)
\* searches for the base name of the new path without its extension, under
\* the strategy given ('any' by default): when a tile of the section matches
\* that name under the strategy, one such tile is overwritten by the new tile
\* and nothing else changes; when none does, nothing changes.  Under 'any' a
\* tile whose label or file name is that name is such a match.
C21_ReplaceWithoutQueryUsesBaseName ==
    (last.op = "replace" /\ last.match_str = <<>> /\ last.label = <<>>)
    => LET q == StemOf(NameOf(last.newpath))
           s == last.section
           before == TilesOf(last.items0, s)
           after == TilesOf(items, s)
       IN  /\ \A o \in {Apps, Others} \ {s} : items[o] = last.items0[o]
           /\ IF MatchesIn(last.items0, s, last.match_on, q)
              THEN \E i \in 1..Len(before) :
                      /\ \E m \in (IF last.match_on = "any"
                                   THEN {"label", "path", "name_ext", "name_noext"}
                                   ELSE {last.match_on}) : MatchesOn(before[i], m, q)
                      /\ after = [before EXCEPT ![i] = Built(last.newpath, s)]
              ELSE items = last.items0
           /\ (last.match_on = "any"
               /\ \E i \in 1..Len(before) :
                    \E m \in {"label", "name_ext", "name_noext"} : MatchesOn(before[i], m, q))
              => \E i \in 1..Len(after) : after[i] = Built(last.newpath, s)

\* Called with the new path alone, the tile whose file name without extension
\* is the new path's, and whose label is another, has been replaced.
C21_Witness ==
    /\ last.op = "replace" /\ last.match_str = <<>> /\ last.label = <<>>
    /\ last.match_on = "any" /\ last.section = Apps
    /\ \E i \in 1..Len(TilesOf(last.items0, Apps)) :
        /\ MatchesOn(TilesOf(last.items0, Apps)[i], "name_noext", StemOf(NameOf(last.newpath)))
        /\ ~MatchesOn(TilesOf(last.items0, Apps)[i], "label", StemOf(NameOf(last.newpath)))
        /\ TilesOf(items, Apps)[i] = Built(last.newpath, Apps)
    /\ items # last.items0

\* C30 as stated: with a strategy name outside the five, findExistingEntry
\* returns -1 and removeDockEntry and replaceDockEntry leave both sections
\* unchanged, whatever the other arguments.
C30_UnknownStrategyMatchesNothing ==
    (last.op \in {"find", "remove", "replace"} /\ last.match_on = UnknownStrategy)
    => /\ last.op = "find" => last.ret = -1
       /\ last.op \in {"remove", "replace"} => items = last.items0

\* C30: with a strategy name outside the five, findExistingEntry returns -1
\* for every query and section, and removeDockEntry, and replaceDockEntry
\* called without the deprecated label argument, leave both sections
\* unchanged.  replaceDockEntry called with a label searches by label whatever
\* the strategy passed, and overwrites the tile of the section with that label
\* when there is one.
C30_UnknownStrategyUnlessLabelGiven ==
    (last.op \in {"find", "remove", "replace"} /\ last.match_on = UnknownStrategy)
    => /\ last.op = "find" => last.ret = -1
       /\ last.op = "remove" => items = last.items0
       /\ (last.op = "replace" /\ last.label = <<>>) => items = last.items0
       /\ (last.op = "replace" /\ last.label # <<>>) =>
            LET before == TilesOf(last.items0, last.section)
                after == TilesOf(items, last.section)
            IN  IF Hits(before, "label", last.label) = {} THEN items = last.items0
                ELSE after = [before EXCEPT ![Lowest(Hits(before, "label", last.label)) + 1] =
                                Built(last.newpath, last.section)]

\* removeDockEntry with the unknown strategy and a query that is the label of
\* a tile of persistent-apps has left the tile there.
C30_Witness ==
    /\ last.op = "remove" /\ last.match_on = UnknownStrategy
    /\ last.match_str # <<>>
    /\ Hits(TilesOf(last.items0, Apps), "label", last.match_str) # {}
    /\ last.section \in {Apps, <<>>}
    /\ items = last.items0

\* C22: a change another process made to the domain between the load and the
\* save is not detected: a save that completes reports no error whatever the
\* store held when it was called, and leaves each section key and each setting
\* key whose attribute is not None equal to the value in memory, the other
\* process's value overwritten.
C22_LastWriterWins ==
    (pc = "done" /\ Len(calls) > 0 /\ calls[Len(calls)].op = "bootstrap"
     /\ calls[Len(calls)].ok)
    => /\ err = NoError
       /\ \A k \in {Apps, Others} : store[k] = items[k]
       /\ \A k \in Range(_MUTABLE_KEYS) :
            attrs[Replace(k, "-", "_")] # None => store[k] = attrs[Replace(k, "-", "_")]

\* Another process had replaced a section by its own tile before the save,
\* and the completed save has put the section of the model in its place.
C22_Witness ==
    /\ Returned
    /\ ops = 1
    /\ \E k \in {Apps, Others} :
        /\ store0[k] = List(<<Spacer("small-spacer-tile")>>)
        /\ items[k] # store0[k]
        /\ store[k] = items[k]

\* The keys save never writes.
ReadOnlyKeys ==
    { <<"mod", "-", "count">>, <<"recent", "-", "apps">>, <<"trash", "-", "full">> }

\* C28: save can be called again after a save that failed, at whichever step:
\* on the same model, when every external call of the second save succeeds
\* (the stop command may report that the agent is not loaded), the save ends
\* without error, the section keys and the setting keys whose attribute is not
\* None hold the values of the model, and the agent is loaded.
C28_RetryAfterFailure ==
    (/\ pc = "done"
     /\ prev.kind \in {"LaunchAgentError", "DockError"}
     /\ StopSucceeded(calls[1].run) \/ StopNotLoaded(calls[1].run)
     /\ \A i \in 2..Len(calls) : calls[i].ok)
    => /\ err = NoError
       /\ LastCall.op = "bootstrap"
       /\ \A k \in {Apps, Others} : store[k] = InMemory(k)
       /\ \A k \in Range(_MUTABLE_KEYS) : NonAbsent(k) => store[k] = InMemory(k)
       /\ agentLoaded

\* The first save failed at a write with the agent stopped; the second found
\* the agent not loaded and completed.
C28_Witness ==
    /\ Returned
    /\ prev.kind = "DockError"
    /\ prev.affected
    /\ StopNotLoaded(calls[1].run)
    /\ calls[1].run.stderr[1] = "Could"
    /\ agentLoaded

\* C29: save writes persistent-apps, persistent-others and the mutable
\* setting keys only: no call writes a read-only key, and a read-only key
\* holds in the store what it held before the save, whatever its attribute
\* was set to in memory.
C29_ReadOnlyKeysNeverWritten ==
    /\ \A i \in DOMAIN calls :
        calls[i].op = "set" =>
            /\ calls[i].key \notin ReadOnlyKeys
            /\ calls[i].key \in {Apps, Others} \cup Range(AllMutableKeys)
    /\ \A k \in ReadOnlyKeys : store[k] = store0[k]

\* A read-only attribute was assigned another value than the store's, and the
\* completed save has left the store's.
C29_Witness ==
    /\ Returned
    /\ \E k \in ReadOnlyKeys :
        /\ attrs[Replace(k, "-", "_")] = Val(0)
        /\ store[k] = Val(1)

\* The name of the directory at a path, a trailing slash ignored.
DirName(path) == NameOf(NoTrailingSlash(path))

\* C25: makeDockOtherEntry on a directory with arrangement 0 gives
\* arrangement 2 when the directory is named exactly 'Downloads' and 1 for
\* every other directory name; a non-zero arrangement is kept.
C25_DownloadsArrangement ==
    (last.op = "makeDockOtherEntry" /\ isdir(last.thePath))
    => last.ret["tile-data"]["arrangement"] =
          IF last.arrangement # 0 THEN last.arrangement
          ELSE IF DirName(last.thePath) = <<"Downloads">> THEN 2
          ELSE 1

\* C26: makeDockAppSpacer raises ValueError for every type other than
\* 'spacer-tile' and 'small-spacer-tile', returning no tile and leaving the
\* sections and settings of the model as they were; for those two it raises
\* nothing and returns a tile of that type whose tile-data is empty.
C26_SpacerTypesValidated ==
    last.op = "makeDockAppSpacer" =>
        /\ items = last.items0 /\ attrs = last.attrs0
        /\ IF last.tile_type \in {"spacer-tile", "small-spacer-tile"}
           THEN /\ last.result.exc.kind = "none"
                /\ last.result.ret["tile-type"] = last.tile_type
                /\ last.result.ret["tile-data"] = <<>>
                /\ DOMAIN last.result.ret = {"tile-type", "tile-data"}
           ELSE /\ last.result.exc.kind = "ValueError"
                /\ last.result.ret = None

\* The type of another kind of tile has been refused.
C26_Witness ==
    /\ last.op = "makeDockAppSpacer"
    /\ last.tile_type = "file-tile"
    /\ last.result.exc.kind = "ValueError"

\* C27: makeDockOtherURLEntry called without a label gives a url tile whose
\* label is the URL, not the empty string; called with a string, the empty one
\* included, it gives a tile whose label is that string.
C27_OmittedLabelIsURL ==
    last.op = "makeDockOtherURLEntry" =>
        /\ last.ret["tile-type"] = "url-tile"
        /\ last.given = "omitted" =>
            /\ last.ret["tile-data"]["label"] = last.theURL
            /\ last.ret["tile-data"]["label"] # <<>>
        /\ last.given = "str" => last.ret["tile-data"]["label"] = last.label.v

\* C27 as the code has it: makeDockOtherURLEntry called without a label gives
\* a url tile whose label is the empty string; called with None as the label
\* it gives a tile whose label is the URL; called with a string, the empty one
\* included, it gives a tile whose label is that string.
C27_OmittedLabelIsEmpty ==
    last.op = "makeDockOtherURLEntry" =>
        /\ last.ret["tile-type"] = "url-tile"
        /\ last.ret["tile-data"]["label"] =
            CASE last.given = "omitted" -> <<>>
              [] last.given = "None" -> last.theURL
              [] last.given = "str" -> last.label.v

\* Called with the URL alone, the builder has returned a tile with the empty
\* label and the URL under url.
C27_Witness ==
    /\ last.op = "makeDockOtherURLEntry"
    /\ last.given = "omitted"
    /\ last.ret["tile-data"]["label"] = <<>>
    /\ last.ret["tile-data"]["url"]["_CFURLString"] = last.theURL

\* C23: the sections belong to each Dock instance and are never shared:
\* constructing a second instance, or appending, removing or replacing tiles
\* through it, leaves the sections seen through the first instance as they
\* were, its unsaved changes kept.
C23_SectionsOwnedPerInstance ==
    last.op \in {"Dock", "append2", "remove2", "replace2"} => items = last.items0

\* The k-th smallest member of a set of numbers.
Nth(S, k) == CHOOSE j \in S : Cardinality({x \in S : x < j}) = k - 1

\* Whether the tiles `now` are the tiles `loaded` with some taken out and some
\* overwritten, each at its place, by a newly built tile (one without GUID).
KeepsOrder(loaded, now) ==
    \E S \in SUBSET (1..Len(loaded)) :
        /\ Cardinality(S) = Len(now)
        /\ \A i \in 1..Len(now) :
            \/ now[i] = loaded[Nth(S, i)]
            \/ "GUID" \notin DOMAIN now[i]

\* C24: the order of the tiles is kept from the load to the store: after any
\* calls of removeDockEntry, removeDockURLEntry and replaceDockEntry and a
\* save that completed, each stored section is the section of the model, and
\* it is the loaded section with the removed tiles taken out and each replaced
\* tile overwritten at its position: the loaded tiles left are in the order
\* they were loaded in.
C24_OrderPreservedAcrossCycle ==
    Returned =>
        \A k \in {Apps, Others} :
            /\ store[k] = items[k]
            /\ KeepsOrder(TilesOf(CycleStore, k), TilesOf(store, k))

\* The first of the three loaded tiles of persistent-apps has been removed or
\* replaced, the second is stored as loaded, followed by a loaded tile, after
\* a completed save.
C24_Witness ==
    /\ Returned
    /\ store # CycleStore
    /\ Len(TilesOf(store, Apps)) >= 2
    /\ \E i \in 1..(Len(TilesOf(store, Apps)) - 1) :
        /\ TilesOf(store, Apps)[i] = CycleApps[2]
        /\ TilesOf(store, Apps)[i + 1] = CycleApps[3]
    /\ CycleApps[1] \notin Range(TilesOf(store, Apps))
    /\ Len(TilesOf(store, Others)) < Len(CycleOthers)

====
